---- MODULE Spec2Model ----
(***************************************************************************)
(* Verification model of the Gctf plugin (scipion-em-gctf): the log parser *)
(* of gctf/convert/convert.py, the coordinate writer, the refinement       *)
(* protocol's convertInputStep and the command builders of the protocols.  *)
(*                                                                         *)
(* Text is a sequence of atoms.  An atom is one character (" ", "m", "[",  *)
(* "ESC" for \x1b, a digit) or a run of characters that holds no space,    *)
(* no 'm', no ESC and no digit ("Final", "Values", "Resolution", ...).     *)
(* Numbers written in a log are digit strings; float() of anything else    *)
(* raises ValueError.                                                      *)
(***************************************************************************)
EXTENDS Integers, Sequences, FiniteSets, TLC

VARIABLES
    log,        \* the log file: [exists, lines]
    pc,         \* position inside readCtfModel / parseGctfOutput
    lineNo,     \* index of the next line the for loop reads
    result,     \* parseGctfOutput's local 'result' (None or a list)
    warnings,   \* number of logger.warning calls
    ctfModel,   \* the CTFModel handed to readCtfModel
    files,      \* coordinate files on disk: name -> lines, or NoFile
    openFiles,  \* names of the files with an open handle
    lastWriter, \* the CoordinatesWriter in use (None or its file)
    w_pc,       \* position of the caller of a CoordinatesWriter
    written,    \* positions handed to writeCoord since the writer was opened
    cv,         \* convertInputStep: its inputs and locals
    cv_pc,      \* position inside convertInputStep
    prot,       \* a protocol: its kind, the active version, its form values
    params,     \* the protocol's _params dictionary
    args,       \* the protocol's _args template
    program,    \* the ProgramGctf of a tilt-series protocol
    emitted,    \* the argument lists handed to the binary, in order
    cmd_pc,     \* position of the protocol run
    bt,         \* a run of batch steps: protocol kind, batches, unreadable images
    b_pc,       \* position inside the step of the current batch
    step,       \* the batch being processed
    disk,       \* paths that exist in the working, tmp and extra directories
    calls,      \* convert, runJob, cleanPath, moveFile and error-log calls so far
    outputs,    \* the CTF attached to each image by the output creation
    vd,         \* a protocol to validate: processes, GPU ids, version, inputs
    errors,     \* what _validate returned
    v_pc,       \* position of the validation
    rates,      \* the sampling rate each micrograph object carries
    created,    \* how many times CTF models have been created
    micFn,      \* the file name of a micrograph
    movedTo,    \* where refineCtfStep moved the _local.star file
    readFrom,   \* where createOutputStep looks for it
    n_pc,       \* position of the refinement of this micrograph
    co,         \* createOutputStep of the refinement: its inputs and locals
    partSet,    \* the output set of particles, in order
    co_pc,      \* position inside createOutputStep
    tsr,        \* a tilt-series run: its series, their tilt images, the unreadable ones
    proc,       \* processTiltSeriesStep of each series: waiting, running, finished, failed
    outp,       \* createOutputStep of each series: its position and what getattr gave
    lock,       \* the holder of the protocol's _lock (0: free)
    tmpLogs,    \* tilt images whose _gctf.log is in the tmp directory
    CTFs,       \* the protocol's output attribute: how often created, its series
    closing     \* closeOutputSetsStep: waiting or finished

ParserVars == <<log, pc, lineNo, result, warnings, ctfModel>>

WriterVars == <<files, openFiles, lastWriter, w_pc, written>>

ConvertVars == <<cv, cv_pc>>

CommandVars == <<prot, params, args, program, emitted, cmd_pc>>

BatchVars == <<bt, b_pc, step, disk, calls, outputs, rates, created>>

ValidateVars == <<vd, errors, v_pc>>

PathVars == <<micFn, movedTo, readFrom, n_pc>>

OutputVars == <<co, partSet, co_pc>>

StepVars == <<tsr, proc, outp, lock, tmpLogs, CTFs, closing>>

vars == <<ParserVars, WriterVars, ConvertVars, CommandVars, BatchVars, ValidateVars, PathVars, OutputVars, StepVars>>

\* what the parser, the writer's caller and convertInputStep leave alone
NotParser == <<WriterVars, ConvertVars, CommandVars, BatchVars, ValidateVars, PathVars, OutputVars, StepVars>>
NotWriter == <<ParserVars, ConvertVars, CommandVars, BatchVars, ValidateVars, PathVars, OutputVars, StepVars>>
NotConvert == <<ParserVars, w_pc, written, CommandVars, BatchVars, ValidateVars, PathVars, OutputVars, StepVars>>
NotCommand == <<ParserVars, WriterVars, ConvertVars, BatchVars, ValidateVars, PathVars, OutputVars, StepVars>>
NotBatch == <<ParserVars, WriterVars, ConvertVars, CommandVars, ValidateVars, PathVars, OutputVars, StepVars>>
NotValidate == <<ParserVars, WriterVars, ConvertVars, CommandVars, BatchVars, PathVars, OutputVars, StepVars>>
NotPaths == <<ParserVars, WriterVars, ConvertVars, CommandVars, BatchVars, ValidateVars, OutputVars, StepVars>>
NotOutput == <<ParserVars, WriterVars, ConvertVars, CommandVars, BatchVars, ValidateVars, PathVars, StepVars>>
NotSteps == <<ParserVars, WriterVars, ConvertVars, CommandVars, BatchVars, ValidateVars, PathVars, OutputVars>>

\* Longest log, in lines, that the parser is run on.
MaxLines == 3

\* Most positions written through one CoordinatesWriter.
MaxCoords == 2

\* Most particles of the input set of convertInputStep.
MaxParticles == 3

None == "None"
Unset == "unset"

Min(a, b) == IF a < b THEN a ELSE b

-----------------------------------------------------------------------------
(* Strings *)

Digits == {"0", "1", "2", "3", "4", "5", "6", "7", "8", "9"}

DigitVal(a) ==
    CASE a = "0" -> 0 [] a = "1" -> 1 [] a = "2" -> 2 [] a = "3" -> 3
      [] a = "4" -> 4 [] a = "5" -> 5 [] a = "6" -> 6 [] a = "7" -> 7
      [] a = "8" -> 8 [] a = "9" -> 9

\* float(tok) succeeds
IsNum(tok) == Len(tok) > 0 /\ \A i \in 1..Len(tok) : tok[i] \in Digits

\* float(tok), for a token float() accepts
RECURSIVE ToNum(_)
ToNum(tok) ==
    IF tok = <<>> THEN 0
    ELSE 10 * ToNum(SubSeq(tok, 1, Len(tok) - 1)) + DigitVal(tok[Len(tok)])

\* marker in line
Contains(s, marker) ==
    \E i \in 1..(Len(s) - Len(marker) + 1) :
        SubSeq(s, i, i + Len(marker) - 1) = marker

RECURSIVE SplitFrom(_, _, _)
SplitFrom(s, cur, acc) ==
    IF s = <<>> THEN (IF cur = <<>> THEN acc ELSE Append(acc, cur))
    ELSE IF Head(s) = " "
         THEN SplitFrom(Tail(s), <<>>, IF cur = <<>> THEN acc ELSE Append(acc, cur))
         ELSE SplitFrom(Tail(s), Append(cur, Head(s)), acc)

\* line.strip().split()
Split(s) == SplitFrom(s, <<>>, <<>>)

\* index of the first 'm' of s, 0 when there is none
FirstM(s) ==
    IF \E i \in 1..Len(s) : s[i] = "m"
    THEN CHOOSE i \in 1..Len(s) : s[i] = "m" /\ \A j \in 1..(i - 1) : s[j] # "m"
    ELSE 0

ansi_escape_none(s) == s

\* ansi_escape.sub('', s) with ansi_escape = \x1b[^m]*m
RECURSIVE ansi_escape_sub(_)
ansi_escape_sub(s) ==
    IF s = <<>> THEN <<>>
    ELSE IF Head(s) = "ESC" /\ FirstM(Tail(s)) > 0
         THEN ansi_escape_sub(SubSeq(Tail(s), FirstM(Tail(s)) + 1, Len(Tail(s))))
         ELSE <<Head(s)>> \o ansi_escape_sub(Tail(s))

FinalValues == <<"Final", " ", "Values">>

ResolutionLimit ==
    <<"Resolution", " ", "li", "m", "it", " ", "esti", "m", "ated", " ",
      "by", " ", "EPA">>

-----------------------------------------------------------------------------
(* The logs the parser is run on *)

RECURSIVE Join(_)
Join(toks) ==
    IF toks = <<>> THEN <<>>
    ELSE IF Len(toks) = 1 THEN toks[1]
         ELSE toks[1] \o <<" ">> \o Join(Tail(toks))

\* "<U> <V> <angle> <CC> Final Values"
FinalLine(u, v, a, cc) == Join(<<u, v, a, cc, <<"Final">>, <<"Values">> >>)

\* "<U> <V> <angle> <phase shift> <CC> Final Values"
FinalLinePh(u, v, a, ph, cc) == Join(<<u, v, a, ph, cc, <<"Final">>, <<"Values">> >>)

\* "Resolution limit estimated by EPA: <tail>"
EpaLine(tail) == ResolutionLimit \o <<":", " ">> \o tail

WellFormedFinal ==
    { FinalLine(<<"1">>, <<"2">>, <<"3">>, <<"4">>),
      FinalLine(<<"2", "1">>, <<"1">>, <<"3">>, <<"6">>),
      FinalLinePh(<<"1">>, <<"2">>, <<"3">>, <<"5">>, <<"4">>),
      FinalLinePh(<<"2">>, <<"1">>, <<"3">>, <<"7">>, <<"6">>) }

MalformedFinal ==
    { FinalLine(<<"1">>, <<"x">>, <<"3">>, <<"4">>),
      Join(<< <<"1">>, <<"2">>, <<"3">>, <<"Final">>, <<"Values">> >>),
      FinalLinePh(<<"1">>, <<"2">>, <<"3">>, <<"x">>, <<"4">>) }

EpaPlain == EpaLine(<<"9">>)
\* \x1b[31mResolution limit estimated by EPA: 8\x1b[0m
EpaWrapped == <<"ESC", "[", "3", "1", "m">> \o EpaLine(<<"8", "ESC", "[", "0", "m">>)
\* an escape sequence between the tokens after the marker
EpaBetween == EpaLine(<<"ESC", "[", "m", "7">>)
\* an escape sequence inside the marker text: Resolution \x1b[mlimit ...
EpaInside ==
    <<"Resolution", " ", "ESC", "[", "m">> \o SubSeq(ResolutionLimit, 3, Len(ResolutionLimit))
        \o <<":", " ", "5">>
\* ESC with no 'm' of its own before the marker: the sequence runs up to
\* the 'm' of "limit"
EpaOpenEsc == <<"ESC", "[">> \o EpaLine(<<"9">>)
EpaMalformed == EpaLine(<<"x">>)

EpaLines == {EpaPlain, EpaWrapped, EpaBetween, EpaInside, EpaOpenEsc, EpaMalformed}

\* a line holding both markers
BothLine == FinalLine(<<"1">>, <<"2">>, <<"3">>, <<"4">>) \o <<" ">> \o EpaLine(<<"9">>)
\* the same, coloured
BothWrapped == <<"ESC", "[", "m">> \o BothLine

NoiseLine == <<"x", " ", "1">>

LogLines == WellFormedFinal \cup MalformedFinal \cup EpaLines \cup {BothLine, BothWrapped, NoiseLine}

Logs == UNION { [1..n -> LogLines] : n \in 0..MaxLines }

-----------------------------------------------------------------------------
(* parseGctfOutput and readCtfModel *)

Ok(r) == [raised |-> FALSE, stop |-> FALSE, result |-> r]
\* an exception leaves the function: its local 'result' is gone
Raise == [raised |-> TRUE, stop |-> FALSE, result |-> Unset]

FinalValuesBranchNoPhase(res, parts) ==
    IF \E i \in 1..Min(3, Len(parts)) : ~IsNum(parts[i]) THEN Raise
    ELSE IF Len(parts) < 5 THEN Raise
    ELSE LET r3 == [i \in 1..3 |-> ToNum(parts[i])] \o SubSeq(res, 4, 6)
         IN  IF ~IsNum(parts[4]) THEN Raise
             ELSE Ok([r3 EXCEPT ![4] = ToNum(parts[4])])

\* the body of "if 'Final Values' in line"
FinalValuesBranch(res, parts) ==
    IF \E i \in 1..Min(3, Len(parts)) : ~IsNum(parts[i])
    THEN Raise                          \* ValueError in map(float, parts[0:3])
    ELSE IF Len(parts) < 5
    THEN Raise                          \* IndexError at parts[4]
    ELSE LET r3 == [i \in 1..3 |-> ToNum(parts[i])] \o SubSeq(res, 4, 6)
         IN  IF parts[5] = <<"Final">>
             THEN IF ~IsNum(parts[4]) THEN Raise
                  ELSE Ok([r3 EXCEPT ![4] = ToNum(parts[4])])
             ELSE IF ~IsNum(parts[5]) \/ ~IsNum(parts[4]) THEN Raise
                  ELSE Ok([r3 EXCEPT ![4] = ToNum(parts[5]),
                                     ![5] = ToNum(parts[4])])

\* the body of "if 'Resolution limit estimated by EPA' in line"
ResolutionBranch(res, line) ==
    LET resol == ansi_escape_sub(line)
        toks  == Split(resol)
    IN  IF toks = <<>> \/ ~IsNum(toks[Len(toks)])
        THEN Raise                      \* IndexError / ValueError
        ELSE [raised |-> FALSE, stop |-> TRUE,
              result |-> [res EXCEPT ![6] = ToNum(toks[Len(toks)])]]

ScanLineSwallow(res, line) ==
    LET fv == IF Contains(line, FinalValues)
              THEN FinalValuesBranch(res, Split(line)) ELSE Ok(res)
        ep == IF Contains(line, ResolutionLimit)
              THEN (IF fv.raised THEN fv ELSE ResolutionBranch(fv.result, line))
              ELSE fv
    IN  IF fv.raised \/ ep.raised THEN [raised |-> FALSE, stop |-> TRUE, result |-> None]
        ELSE ep

\* one iteration of "for line in f"
ScanLine(res, line) ==
    LET fv == IF Contains(line, FinalValues)
              THEN FinalValuesBranch(res, Split(line)) ELSE Ok(res)
    IN  IF fv.raised THEN fv
        ELSE IF Contains(line, ResolutionLimit)
             THEN ResolutionBranch(fv.result, line)
             ELSE fv

\* the for loop over the lines, from 'result' res on
RECURSIVE ParseFrom(_, _)
ParseFrom(res, lines) ==
    IF lines = <<>> THEN Ok(res)
    ELSE LET s == ScanLine(res, Head(lines))
         IN  IF s.raised \/ s.stop THEN s ELSE ParseFrom(s.result, Tail(lines))

EmptyCtf ==
    [defocusU |-> Unset, defocusV |-> Unset, defocusAngle |-> Unset,
     fitQuality |-> Unset, resolution |-> Unset, phaseShift |-> Unset]

setWrongDefocusSame(ctf) ==
    [ctf EXCEPT !.defocusU = -999, !.defocusV = -999, !.defocusAngle = -999]

setWrongDefocus(ctf) ==
    [ctf EXCEPT !.defocusU = -999, !.defocusV = -1, !.defocusAngle = -999]

\* CTFModel.setStandardDefocus of pwem: store, then standardize() (U >= V,
\* angle in [0, 180))
setStandardDefocus(ctf, u, v, a) ==
    LET sw == v > u
        a1 == IF sw THEN a + 90 ELSE a
        a2 == IF a1 >= 180 THEN a1 - 180 ELSE IF a1 < 0 THEN a1 + 180 ELSE a1
    IN  [ctf EXCEPT !.defocusU = IF sw THEN v ELSE u,
                    !.defocusV = IF sw THEN u ELSE v,
                    !.defocusAngle = a2]

\* readCtfModel after parseGctfOutput has returned res
readCtfModelStore(ctf, res) ==
    LET c1  == IF res = None THEN setWrongDefocus(ctf)
               ELSE setStandardDefocus(ctf, res[1], res[2], res[3])
        fit == IF res = None THEN -999 ELSE res[4]
        rsl == IF res = None THEN -999 ELSE res[6]
        ph  == IF res = None THEN 0 ELSE res[5]
        c2  == [c1 EXCEPT !.fitQuality = fit, !.resolution = rsl]
    IN  IF ph # 0 THEN [c2 EXCEPT !.phaseShift = ph] ELSE c2


\* if os.path.exists(filename): ... else: result = None; logger.warning
parseGctfOutput_Open ==
    /\ pc = "call"
    /\ IF log.exists
       THEN /\ result' = <<0, 0, 0, 0, 0, 0>>
            /\ lineNo' = 1
            /\ pc' = "scan"
            /\ UNCHANGED warnings
       ELSE /\ result' = None
            /\ warnings' = warnings + 1
            /\ pc' = "returned"
            /\ UNCHANGED lineNo
    /\ UNCHANGED <<log, ctfModel, NotParser>>

\* for line in f: ...
parseGctfOutput_Line ==
    /\ pc = "scan"
    /\ lineNo <= Len(log.lines)
    /\ LET s == ScanLine(result, log.lines[lineNo])
       IN  /\ result' = s.result
           /\ pc' = IF s.raised THEN "raised" ELSE IF s.stop THEN "returned" ELSE "scan"
           /\ lineNo' = lineNo + 1
    /\ UNCHANGED <<log, warnings, ctfModel, NotParser>>

\* the loop runs out of lines: f.close(); return result
parseGctfOutput_Eof ==
    /\ pc = "scan"
    /\ lineNo > Len(log.lines)
    /\ pc' = "returned"
    /\ UNCHANGED <<log, lineNo, result, warnings, ctfModel, NotParser>>

\* readCtfModel, from the return of parseGctfOutput on
readCtfModel ==
    /\ pc = "returned"
    /\ ctfModel' = readCtfModelStore(ctfModel, result)
    /\ pc' = "done"
    /\ UNCHANGED <<log, lineNo, result, warnings, NotParser>>

ParserNext ==
    \/ parseGctfOutput_Open
    \/ parseGctfOutput_Line
    \/ parseGctfOutput_Eof
    \/ readCtfModel


-----------------------------------------------------------------------------
(* CoordinatesWriter *)

NoFile == "NoFile"

\* A number is kept as a fraction num/den, den > 0 (den = 1 for an int).
Int1(n) == [num |-> n, den |-> 1]

\* int(v): truncation towards zero, as "%d" does for a float
Trunc(v) ==
    IF v.num >= 0 THEN v.num \div v.den ELSE -((-v.num) \div v.den)

DigitChar(d) ==
    CASE d = 0 -> "0" [] d = 1 -> "1" [] d = 2 -> "2" [] d = 3 -> "3"
      [] d = 4 -> "4" [] d = 5 -> "5" [] d = 6 -> "6" [] d = 7 -> "7"
      [] d = 8 -> "8" [] d = 9 -> "9"

RECURSIVE DigitsOf(_)
DigitsOf(n) ==
    IF n < 10 THEN <<DigitChar(n)>>
    ELSE DigitsOf(n \div 10) \o <<DigitChar(n % 10)>>

\* drops the sign
FormatDNoSign(v) == DigitsOf(IF Trunc(v) < 0 THEN -Trunc(v) ELSE Trunc(v))

\* "%d" % v
FormatD(v) ==
    LET n == Trunc(v)
    IN  IF n < 0 THEN <<"-">> \o DigitsOf(-n) ELSE DigitsOf(n)

\* CoordinatesWriter.HEADER, line by line
HEADER ==
    << <<>>,
       <<"data_">>,
       <<>>,
       <<"loop_">>,
       <<"_rlnCoordinateX", " ", "#", "1">>,
       <<"_rlnCoordinateY", " ", "#", "2">> >>

\* CoordinatesWriter(filename): makePath, open(filename, 'w'), write HEADER
WriterOpen(fs, fn) == [fs EXCEPT ![fn] = HEADER]

\* writeCoord(self, pos) called with the positional arguments argv:
\* TypeError unless exactly one is given
writeCoordRaises(argv) == Len(argv) # 1

\* self._f.write("%d %d\n" % (pos[0], pos[1]))
writeCoordLine(pos) == FormatD(pos[1]) \o <<" ">> \o FormatD(pos[2])

CoordNames == {"mic1", "mic2"}

CoordValues == {-3, 0, 12, 105}


\* w = CoordinatesWriter(filename)
CoordinatesWriter_init ==
    /\ w_pc = "new"
    /\ \E fn \in CoordNames :
        /\ files' = WriterOpen(files, fn)
        /\ openFiles' = openFiles \cup {fn}
        /\ lastWriter' = fn
    /\ written' = <<>>
    /\ w_pc' = "open"
    /\ UNCHANGED NotWriter

\* w.writeCoord(pos) with pos a pair of integers
CoordinatesWriter_writeCoord ==
    /\ w_pc = "open"
    /\ Len(written) < MaxCoords
    /\ \E x \in CoordValues, y \in CoordValues :
        LET argv == << <<Int1(x), Int1(y)>> >>
        IN  /\ ~writeCoordRaises(argv)
            /\ files' = [files EXCEPT
                    ![lastWriter] = Append(@, writeCoordLine(argv[1]))]
            /\ written' = Append(written, <<x, y>>)
    /\ UNCHANGED <<openFiles, lastWriter, w_pc, NotWriter>>

\* w.close()
CoordinatesWriter_close ==
    /\ w_pc = "open"
    /\ openFiles' = openFiles \ {lastWriter}
    /\ w_pc' = "closed"
    /\ UNCHANGED <<files, lastWriter, written, NotWriter>>

WriterNext ==
    \/ CoordinatesWriter_init
    \/ CoordinatesWriter_writeCoord
    \/ CoordinatesWriter_close

-----------------------------------------------------------------------------
(* ProtGctfRefine.convertInputStep *)

\* a particle of the input set: its micrograph id and name, its coordinate
\* and the integer part of its shifts
Particles ==
    [micId : 1..2, x : {10}, y : {20, 35}, sx : {1}, sy : {-1}]

\* coord.getMicName() of the particles of micrograph micId
MicNameOf(micId) == IF micId = 1 THEN "mic1" ELSE "mic2"

\* inputParts.iterItems(orderBy=['_micId', 'id'])
SortedByMic(ps) == \A i \in 1..(Len(ps) - 1) : ps[i].micId <= ps[i + 1].micId

ParticleSets ==
    {ps \in UNION {[1..n -> Particles] : n \in 0..MaxParticles} : SortedByMic(ps)}

\* scale = inputParts.getSamplingRate() / inputMics.getSamplingRate()
\* doScale = abs(scale - 1.0 > 0.00001)
doScale(partSampling, micSampling) ==
    (partSampling - micSampling) * 100000 > micSampling

Times(v, num, den) == [num |-> v.num * num, den |-> v.den * den]


\* lines 379-389
convertInputStep_Begin ==
    /\ cv_pc = "start"
    /\ cv' = [cv EXCEPT !.idx = 1]
    /\ lastWriter' = None
    /\ cv_pc' = "iter"
    /\ UNCHANGED <<files, openFiles, NotConvert>>

\* one turn of "for particle in self._iterParticlesMic(newMicCallback=_newMic)":
\* the generator up to its next yield (lines 361-376, _newMic 391-396) and
\* the loop body (lines 399-406)
convertInputStep_Particle ==
    /\ cv_pc = "iter"
    /\ cv.idx <= Len(cv.particles)
    /\ LET p       == cv.particles[cv.idx]
           micName == MicNameOf(p.micId)
           newMic  == p.micId # cv.lastMicId     \* lastMicId 0: None
           mic     == IF newMic
                      THEN (IF micName \in cv.micDict THEN micName ELSE None)
                      ELSE cv.mic
           opens   == newMic /\ mic # None
           \* _newMic: close the last writer, open the next one
           files1  == IF opens THEN WriterOpen(files, mic) ELSE files
           open1   == IF opens
                      THEN (openFiles \ (IF lastWriter # None THEN {lastWriter} ELSE {}))
                               \cup {mic}
                      ELSE openFiles
           writer1 == IF opens THEN mic ELSE lastWriter
           \* the loop body
           x1      == IF cv.applyShifts THEN Int1(p.x - p.sx) ELSE Int1(p.x)
           y1      == IF cv.applyShifts THEN Int1(p.y - p.sy) ELSE Int1(p.y)
           sc      == doScale(cv.partSampling, cv.micSampling)
           x2      == IF sc THEN Times(x1, cv.partSampling, cv.micSampling) ELSE x1
           y2      == IF sc THEN Times(y1, cv.partSampling, cv.micSampling) ELSE y1
           argv    == <<x2, y2>>                 \* self._lastWriter.writeCoord(x, y)
           raises  == \/ cv.applyShifts /\ cv.alignNone   \* shifts is None
                      \/ writeCoordRaises(argv)
           called  == mic # None /\ ~(cv.applyShifts /\ cv.alignNone)
       IN  /\ cv' = [cv EXCEPT !.idx = @ + 1,
                               !.lastMicId = p.micId,
                               !.mic = mic,
                               \* the last call self._lastWriter.writeCoord(x, y)
                               !.passed = IF called
                                          THEN [of |-> cv.idx, argv |-> argv]
                                          ELSE @]
           /\ openFiles' = open1
           /\ lastWriter' = writer1
           /\ IF mic = None
              THEN /\ files' = files1
                   /\ cv_pc' = "iter"
              ELSE IF raises
              THEN /\ files' = files1
                   /\ cv_pc' = "raised"
              ELSE /\ files' = [files1 EXCEPT
                           ![writer1] = Append(@, writeCoordLine(argv))]
                   /\ cv_pc' = "iter"
    /\ UNCHANGED NotConvert

\* lines 408-409
convertInputStep_End ==
    /\ cv_pc = "iter"
    /\ cv.idx > Len(cv.particles)
    /\ openFiles' = openFiles \ (IF lastWriter # None THEN {lastWriter} ELSE {})
    /\ cv_pc' = "done"
    /\ UNCHANGED <<cv, files, lastWriter, NotConvert>>

ConvertNext ==
    \/ convertInputStep_Begin
    \/ convertInputStep_Particle
    \/ convertInputStep_End



-----------------------------------------------------------------------------
(* Command building: ProgramGctf, ProtGctf, ProtGctfRefine, ProtTsGctf.    *)
(* An argument string is a sequence of (flag, value) items in the order    *)
(* the code concatenates them.  A float is held as a count of thousandths. *)

\* Most command lines one protocol run is followed for.
MaxRuns == 2

Real(n) == n * 1000

RealDiv(a, b) == (a * 1000) \div b

\* '%f' % v: the integer part and six decimals
FmtF(v) == [t |-> "f", i |-> v \div 1000, frac |-> (v % 1000) * 1000, key |-> ""]

\* '%d' % v: the integer part
FmtD(v) == [t |-> "d", i |-> v \div 1000, frac |-> 0, key |-> ""]

\* '%0.3f' % v: the integer part and three decimals
Fmt3F(v) == [t |-> "0.3f", i |-> v \div 1000, frac |-> v % 1000, key |-> ""]

\* '% 0.2f' % v: the integer part and two decimals
Fmt2F(v) == [t |-> " 0.2f", i |-> v \div 1000, frac |-> (v % 1000) \div 10, key |-> ""]

\* a '%(key)f' or '%(key)d' placeholder left in the template
Key(conv, k) == [t |-> conv, i |-> 0, frac |-> 0, key |-> k]

\* literal text of the template: '%%(GPU)s', 'NONE', '_coords.star', a path
Lit(text) == [t |-> text, i |-> 0, frac |-> 0, key |-> ""]

Arg(flag, val) == [flag |-> flag, val |-> val]

\* a toggle that formats as 1 whatever its value
Bool01AlwaysOne(b) == Real(1)

Bool01(b) == IF b THEN Real(1) ELSE Real(0)

EmptyDict == [k \in {} |-> 0]

\* template % d when a named placeholder has no entry in d
KeyError(template, d) ==
    \E j \in 1..Len(template) :
        template[j].val.key # "" /\ template[j].val.key \notin DOMAIN d

\* '%s' % v
FmtS(v) == [t |-> "s", i |-> v, frac |-> 0, key |-> ""]

\* a formatting that leaves '%%' as it is
PyFormatValKeepEscape(v, d) ==
    IF v.t = "%f" THEN FmtF(d[v.key])
    ELSE IF v.t = "%d" THEN FmtD(d[v.key])
    ELSE v

\* one conversion of template % d; '%%(GPU)s' becomes the placeholder
\* '%(GPU)s'
PyFormatVal(v, d) ==
    IF v.t = "%f" THEN FmtF(d[v.key])
    ELSE IF v.t = "%d" THEN FmtD(d[v.key])
    ELSE IF v.t = "%s" THEN FmtS(d[v.key])
    ELSE IF v.t = "%%(GPU)s" THEN Key("%s", "GPU")
    ELSE v

\* template % d: named placeholders are filled from d, '%%' becomes '%'
PyFormat(template, d) ==
    [j \in 1..Len(template) |->
        Arg(template[j].flag, PyFormatVal(template[j].val, d))]

\* values of the form parameters that the model keeps fixed
Form ==
    [windowSize |-> Real(1024), highRes |-> Real(4), highResFreq |-> 250,
     minDefocus |-> Real(5000), maxDefocus |-> Real(90000),
     stepDefocus |-> Real(500), astigmatism |-> Real(1000),
     plotResRing |-> TRUE, EPAsmp |-> Real(4), overlap |-> 500,
     convsize |-> Real(85), smoothResL |-> Real(1000), bfactor |-> Real(150),
     HighResL |-> Real(15), HighResH |-> Real(4), HighResBf |-> Real(50),
     phaseShiftL |-> Real(0), phaseShiftH |-> Real(180),
     phaseShiftS |-> Real(10), refine2DT |-> Real(1),
     locRad |-> Real(1024), locAveType |-> Real(0), locBoxSize |-> Real(512),
     locOverlap |-> 500, locResL |-> Real(15), locResH |-> Real(5),
     locAstm |-> FALSE, defUerr |-> Real(500), defVerr |-> Real(500),
     defAerr |-> Real(15), Berr |-> Real(50)]

\* acquisition of the input set
Acq ==
    [voltage |-> Real(300), sphericalAberration |-> Real(2),
     magnification |-> Real(50000), ampContrast |-> 100,
     samplingRate |-> Real(1), scannedPixelSize |-> Real(7)]

Versions == {"0.50", "1.06", "1.18"}

\* low-resolution bound on the form: Angstroms (tilt series, refinement) or
\* a digital frequency (micrographs)
LowResOf(kind) == IF kind = "mic" THEN {10, 50} ELSE {Real(30), Real(50), Real(80)}

\* the 4th word of a CTF's comment (a digital frequency) on recalculation
RecalLowFreq == {10, 50}

ProtocolsOf(kind) ==
    {[kind |-> kind, version |-> v, lowRes |-> l, ctfDownFactor |-> f,
      doEPA |-> b[1], doHighRes |-> b[2], doValidate |-> b[3],
      doPhShEst |-> ps[1], coSearchRefine |-> ps[2], phaseShiftT |-> ps[3],
      useInputCtf |-> u, recalculate |-> r] :
        v \in Versions, l \in LowResOf(kind), f \in {1, 2},
        b \in BOOLEAN \X BOOLEAN \X BOOLEAN,
        ps \in ({FALSE} \X {FALSE} \X {0}) \cup ({TRUE} \X BOOLEAN \X {0, 1}),
        u \in (IF kind = "refine" THEN BOOLEAN ELSE {FALSE}),
        r \in (IF kind = "mic" THEN BOOLEAN ELSE {FALSE})}

Protocols == ProtocolsOf("mic") \cup ProtocolsOf("refine") \cup ProtocolsOf("ts")

NoProtocol ==
    [kind |-> "none", version |-> "1.18", lowRes |-> 0, ctfDownFactor |-> 1,
     doEPA |-> FALSE, doHighRes |-> FALSE, doValidate |-> FALSE,
     doPhShEst |-> FALSE, coSearchRefine |-> FALSE, phaseShiftT |-> 0,
     useInputCtf |-> FALSE, recalculate |-> FALSE]

NoProgram == [args |-> <<>>, params |-> EmptyDict, ext |-> ""]

\* a version test that holds for every version
isVersion118Always(p) == TRUE

\* ProgramGctf.isVersion118
isVersion118(p) == p.version \in {"1.18"}

\* ProtGctf._isVersion118
ProtGctf_isVersion118(p) == p.version \in {"1.18"}

\* the dictionary the tilt-series protocol stores in _initialize
createCtfParams(p) ==
    [k \in {"voltage", "sphericalAberration", "magnification", "ampContrast",
            "samplingRate", "scannedPixelSize", "windowSize", "lowRes",
            "highRes", "minDefocus", "maxDefocus"} |->
        CASE k = "samplingRate" -> Acq.samplingRate * p.ctfDownFactor
          [] k = "scannedPixelSize" -> Acq.scannedPixelSize * p.ctfDownFactor
          [] k = "windowSize" -> Form.windowSize
          [] k = "lowRes" -> p.lowRes
          [] k = "highRes" -> Form.highRes
          [] k = "minDefocus" -> Form.minDefocus
          [] k = "maxDefocus" -> Form.maxDefocus
          [] OTHER -> Acq[k]]

\* ProgramGctf._getArgs: the dictionary after its updates
ProgramGctf_getArgsParams(d) ==
    ("minDefocus" :> Form.minDefocus) @@ ("maxDefocus" :> Form.maxDefocus)
        @@ ("step_focus" :> Form.stepDefocus)
        @@ (IF d["lowRes"] > Real(50) THEN ("lowRes" :> Real(50)) @@ d ELSE d)

\* ProgramGctf._getArgs: the template
ProgramGctf_getArgs(p, d) ==
    <<Arg("--apix", Key("%f", "samplingRate")),
      Arg("--kV", Key("%f", "voltage")),
      Arg("--cs", Key("%f", "sphericalAberration")),
      Arg("--ac", Key("%f", "ampContrast")),
      Arg("--dstep", Key("%f", "scannedPixelSize")),
      Arg("--defL", Key("%f", "minDefocus")),
      Arg("--defH", Key("%f", "maxDefocus")),
      Arg("--defS", Key("%f", "step_focus")),
      Arg("--astm", FmtF(Form.astigmatism)),
      Arg("--resL", Key("%f", "lowRes")),
      Arg("--resH", Key("%f", "highRes")),
      Arg("--do_EPA", FmtD(Bool01(p.doEPA))),
      Arg("--boxsize", Key("%d", "windowSize")),
      Arg("--plot_res_ring", FmtD(Bool01(Form.plotResRing))),
      Arg("--gid", Lit("%%(GPU)s")),
      Arg("--bfac", FmtD(Form.bfactor)),
      Arg("--B_resH", FmtF(2 * d["samplingRate"])),
      Arg("--overlap", FmtF(Form.overlap)),
      Arg("--convsize", FmtD(Form.convsize)),
      Arg("--do_Hres_ref", FmtD(Bool01(p.doHighRes)))>>
    \o (IF isVersion118(p)
        THEN <<Arg("--smooth_resL", FmtD(Form.smoothResL))>> ELSE <<>>)
    \o <<Arg("--EPA_oversmp", FmtD(Form.EPAsmp))>>
    \o (IF p.doPhShEst
        THEN <<Arg("--phase_shift_L", FmtF(Form.phaseShiftL)),
               Arg("--phase_shift_H", FmtF(Form.phaseShiftH)),
               Arg("--phase_shift_S", FmtF(Form.phaseShiftS)),
               Arg("--phase_shift_T", FmtD(Real(1 + p.phaseShiftT)))>>
             \o (IF isVersion118(p)
                 THEN <<Arg("--cosearch_refine_ps", FmtD(Bool01(p.coSearchRefine))),
                        Arg("--refine_2d_T", FmtD(Form.refine2DT))>>
                 ELSE <<>>)
        ELSE <<>>)
    \o (IF p.doHighRes
        THEN <<Arg("--Href_resL", Fmt3F(Form.HighResL)),
               Arg("--Href_resH", Fmt3F(Form.HighResH)),
               Arg("--Href_bfac", FmtD(Form.HighResBf))>>
        ELSE <<>>)
    \o <<Arg("--ctfstar", Lit("NONE")),
         Arg("--do_validation", FmtD(Bool01(p.doValidate)))>>

\* ProgramGctf.__init__
ProgramGctf_init(p, d) ==
    [args |-> ProgramGctf_getArgs(p, ProgramGctf_getArgsParams(d)),
     params |-> ProgramGctf_getArgsParams(d),
     ext |-> IF isVersion118(p)
             THEN (IF ~p.doEPA THEN ".pow" ELSE ".epa")
             ELSE ".ctf"]

\* a getCommand whose merge lets the stored value win
ProgramGctf_getCommandBaseWins(prog, kwargs) == PyFormat(prog.args, prog.params @@ kwargs)

\* ProgramGctf.getCommand: the arguments it returns
ProgramGctf_getCommand(prog, kwargs) == PyFormat(prog.args, kwargs @@ prog.params)

\* ProgramGctf.getCommand: self._params after the call.  The update goes
\* to the copy made by dict(self._params).
ProgramGctf_getCommandStored(prog, kwargs) == prog.params

\* keyword arguments getCommand is called with
Overrides ==
    {EmptyDict, "lowRes" :> Real(80), "lowRes" :> Real(30),
     "scannedPixelSize" :> Real(14)}

\* the dictionary a micrograph or refinement protocol starts from
\* (ProtGctfRefine._defineValues; the base class does the same for ProtGctf)
defineValues(lowRes, highRes) ==
    [k \in {"voltage", "sphericalAberration", "magnification", "ampContrast",
            "samplingRate", "scannedPixelSize", "windowSize", "lowRes",
            "highRes", "minDefocus", "maxDefocus"} |->
        CASE k = "windowSize" -> Form.windowSize
          [] k = "lowRes" -> lowRes
          [] k = "highRes" -> highRes
          [] k = "minDefocus" -> Form.minDefocus
          [] k = "maxDefocus" -> Form.maxDefocus
          [] OTHER -> Acq[k]]

\* ProtGctf._prepareCommand: the dictionary after its updates
ProtGctf_prepareCommand(p, d) ==
    LET sampling == Acq.samplingRate * p.ctfDownFactor
        lowRes == RealDiv(sampling, d["lowRes"])
    IN  ("sampling" :> sampling)
            @@ ("lowRes" :> IF lowRes > Real(50) THEN Real(50) ELSE lowRes)
            @@ ("highRes" :> RealDiv(sampling, d["highRes"]))
            @@ ("step_focus" :> Real(500))
            @@ d

\* words of the comment of a CTF to recalculate:
\* defocusU defocusV angle lowest-frequency highest-frequency
RecalLines ==
    {<<Real(20000), Real(21000), Real(45), f, 250>> : f \in RecalLowFreq}

\* ProtGctf._prepareRecalCommand: the dictionary after its updates
ProtGctf_prepareRecalCommand(line) ==
    LET sampling == Acq.samplingRate
    IN  ("step_focus" :> Real(1000))
            @@ ("sampling" :> sampling)
            @@ ("lowRes" :> RealDiv(sampling, line[4]))
            @@ ("highRes" :> RealDiv(sampling, line[5]))
            @@ ("minDefocus" :> IF line[1] < line[2] THEN line[1] ELSE line[2])
            @@ ("maxDefocus" :> IF line[1] < line[2] THEN line[2] ELSE line[1])
            @@ ("windowSize" :> Form.windowSize)
            @@ [k \in {"voltage", "sphericalAberration", "magnification",
                       "ampContrast", "samplingRate", "scannedPixelSize"} |->
                    Acq[k]]

\* ProtGctf._argsGctf
ProtGctf_argsGctf(p, d) ==
    <<Arg("--apix", FmtF(d["sampling"])),
      Arg("--kV", FmtF(d["voltage"])),
      Arg("--cs", FmtF(d["sphericalAberration"])),
      Arg("--ac", FmtF(d["ampContrast"])),
      Arg("--dstep", FmtF(d["scannedPixelSize"])),
      Arg("--defL", FmtF(d["minDefocus"])),
      Arg("--defH", FmtF(d["maxDefocus"])),
      Arg("--defS", FmtF(d["step_focus"])),
      Arg("--astm", FmtF(Form.astigmatism)),
      Arg("--resL", FmtF(d["lowRes"])),
      Arg("--resH", FmtF(d["highRes"])),
      Arg("--do_EPA", FmtD(Bool01(p.doEPA))),
      Arg("--boxsize", FmtD(d["windowSize"])),
      Arg("--plot_res_ring", FmtD(Bool01(Form.plotResRing))),
      Arg("--gid", Lit("%%(GPU)s")),
      Arg("--bfac", FmtD(Form.bfactor)),
      Arg("--B_resH", FmtF(2 * d["sampling"])),
      Arg("--overlap", FmtF(Form.overlap)),
      Arg("--convsize", FmtD(Form.convsize)),
      Arg("--do_Hres_ref", FmtD(Bool01(p.doHighRes)))>>
    \o (IF ProtGctf_isVersion118(p)
        THEN <<Arg("--smooth_resL", FmtD(Form.smoothResL))>> ELSE <<>>)
    \o <<Arg("--EPA_oversmp", FmtD(Form.EPAsmp))>>
    \o (IF p.doPhShEst
        THEN <<Arg("--phase_shift_L", FmtF(Form.phaseShiftL)),
               Arg("--phase_shift_H", FmtF(Form.phaseShiftH)),
               Arg("--phase_shift_S", FmtF(Form.phaseShiftS)),
               Arg("--phase_shift_T", FmtD(Real(1 + p.phaseShiftT)))>>
             \o (IF ProtGctf_isVersion118(p)
                 THEN <<Arg("--cosearch_refine_ps", FmtD(Bool01(p.coSearchRefine))),
                        Arg("--refine_2d_T", FmtD(Form.refine2DT))>>
                 ELSE <<>>)
        ELSE <<>>)
    \o (IF p.doHighRes
        THEN <<Arg("--Href_resL", FmtD(Form.HighResL)),
               Arg("--Href_resH", FmtD(Form.HighResH)),
               Arg("--Href_bfac", FmtD(Form.HighResBf))>>
        ELSE <<>>)
    \o <<Arg("--ctfstar", Lit("NONE")),
         Arg("--do_validation", FmtD(Bool01(p.doValidate)))>>

\* ProtGctfRefine._prepareCommand: the dictionary after its updates
ProtGctfRefine_prepareCommand(p, d) ==
    ("sampling" :> Acq.samplingRate * p.ctfDownFactor)
        @@ ("step_focus" :> Form.stepDefocus)
        @@ (IF d["lowRes"] > Real(50) THEN ("lowRes" :> Real(50)) @@ d ELSE d)

\* ProtGctfRefine._argsGctf
ProtGctfRefine_argsGctf(p, d) ==
    <<Arg("--apix", FmtF(d["sampling"])),
      Arg("--kV", FmtF(d["voltage"])),
      Arg("--cs", FmtF(d["sphericalAberration"])),
      Arg("--ac", FmtF(d["ampContrast"])),
      Arg("--dstep", FmtF(d["scannedPixelSize"])),
      Arg("--defL", FmtF(d["minDefocus"])),
      Arg("--defH", FmtF(d["maxDefocus"])),
      Arg("--defS", FmtF(d["step_focus"])),
      Arg("--astm", FmtF(Form.astigmatism)),
      Arg("--resL", FmtF(d["lowRes"])),
      Arg("--resH", FmtF(d["highRes"])),
      Arg("--do_EPA", FmtD(Bool01(p.doEPA))),
      Arg("--boxsize", FmtD(d["windowSize"])),
      Arg("--plot_res_ring", FmtD(Bool01(Form.plotResRing))),
      Arg("--gid", Lit("%%(GPU)s")),
      Arg("--bfac", FmtD(Form.bfactor)),
      Arg("--B_resH", FmtF(2 * d["sampling"])),
      Arg("--overlap", FmtF(Form.overlap)),
      Arg("--convsize", FmtD(Form.convsize)),
      Arg("--do_Hres_ref", FmtD(Bool01(p.doHighRes))),
      Arg("--do_local_refine", Lit("1")),
      Arg("--boxsuffix", Lit("_coords.star")),
      Arg("--local_radius", FmtD(Form.locRad)),
      Arg("--local_avetype", FmtD(Form.locAveType)),
      Arg("--local_boxsize", FmtD(Form.locBoxSize)),
      Arg("--local_overlap", Fmt2F(Form.locOverlap)),
      Arg("--local_resL", FmtD(Form.locResL)),
      Arg("--local_resH", FmtD(Form.locResH)),
      Arg("--refine_local_astm", FmtD(Bool01(Form.locAstm))),
      Arg("--EPA_oversmp", FmtD(Form.EPAsmp))>>
    \o (IF p.doPhShEst
        THEN <<Arg("--phase_shift_L", FmtF(Form.phaseShiftL)),
               Arg("--phase_shift_H", FmtF(Form.phaseShiftH)),
               Arg("--phase_shift_S", FmtF(Form.phaseShiftS)),
               Arg("--phase_shift_T", FmtD(Real(1 + p.phaseShiftT)))>>
        ELSE <<>>)
    \o (IF p.doHighRes
        THEN <<Arg("--Href_resL", FmtD(Form.HighResL)),
               Arg("--Href_resH", FmtD(Form.HighResH)),
               Arg("--Href_bfac", FmtD(Form.HighResBf))>>
        ELSE <<>>)
    \o <<Arg("--ctfstar", Lit("NONE")),
         Arg("--do_validation", FmtD(Bool01(p.doValidate)))>>

\* the input CTF that refineCtfStep matches to its micrograph
InputCtf == [defocusU |-> Real(20000), defocusV |-> Real(21000), defocusAngle |-> Real(45)]

\* the input CTFs of two micrographs
InputCtfs == {InputCtf, [defocusU |-> Real(30000), defocusV |-> Real(31000), defocusAngle |-> Real(90)]}

\* refineCtfStep: the dictionary entries added for a matched input CTF
refineCtfStep_params(ctf) ==
    [k \in {"refine_input_ctf", "defU_init", "defV_init", "defA_init", "B_init"} |->
        CASE k = "refine_input_ctf" -> Real(1)
          [] k = "defU_init" -> ctf.defocusU
          [] k = "defV_init" -> ctf.defocusV
          [] k = "defA_init" -> ctf.defocusAngle
          [] OTHER -> Form.bfactor]

\* refineCtfStep: the flags appended to _args for a matched input CTF
refineCtfStep_args(d) ==
    <<Arg("--refine_input_ctf", FmtD(d["refine_input_ctf"])),
      Arg("--defU_init", FmtF(d["defU_init"])),
      Arg("--defV_init", FmtF(d["defV_init"])),
      Arg("--defA_init", FmtF(d["defA_init"])),
      Arg("--B_init", FmtF(d["B_init"])),
      Arg("--defU_err", FmtF(Form.defUerr)),
      Arg("--defV_err", FmtF(Form.defVerr)),
      Arg("--defA_err", FmtF(Form.defAerr)),
      Arg("--B_err", FmtF(Form.Berr))>>

Emit(via, kwargs, a) == Append(emitted, [via |-> via, kwargs |-> kwargs, args |-> a])

\* ProtTsGctf._initialize: the dictionary is built and handed to ProgramGctf.
\* getCtfParamsDict returns self._params itself, so what _getArgs writes
\* into the dictionary it receives is written into the protocol's own.
ProtTsGctf_initialize ==
    /\ cmd_pc = "new"
    /\ prot.kind = "ts"
    /\ program' = ProgramGctf_init(prot, createCtfParams(prot))
    /\ params' = program'.params
    /\ cmd_pc' = "ready"
    /\ UNCHANGED <<prot, args, emitted, NotCommand>>

\* ProtTsGctf._estimateCtf, up to runJob
ProtTsGctf_estimateCtf ==
    /\ cmd_pc = "ready"
    /\ prot.kind = "ts"
    /\ Len(emitted) < MaxRuns
    /\ LET kwargs == "scannedPixelSize" :> params["scannedPixelSize"]
       IN  /\ emitted' = Emit("_estimateCtf", kwargs,
                              ProgramGctf_getCommand(program, kwargs)
                                  \o <<Arg("", Lit("workingDir/*.mrc"))>>)
           /\ program' = [program EXCEPT
                              !.params = ProgramGctf_getCommandStored(program, kwargs)]
    /\ params' = program'.params
    /\ UNCHANGED <<prot, args, cmd_pc, NotCommand>>

\* a caller runs what ProgramGctf.getCommand(**kwargs) returns
ProgramGctf_getCommand_call ==
    /\ cmd_pc = "ready"
    /\ prot.kind = "ts"
    /\ Len(emitted) < MaxRuns
    /\ \E kwargs \in Overrides :
          /\ ~KeyError(program.args, kwargs @@ program.params)
          /\ emitted' = Emit("getCommand", kwargs, ProgramGctf_getCommand(program, kwargs))
          /\ program' = [program EXCEPT
                             !.params = ProgramGctf_getCommandStored(program, kwargs)]
    /\ params' = program'.params
    /\ UNCHANGED <<prot, args, cmd_pc, NotCommand>>

\* ProtGctf: _defineValues and _prepareCommand before the estimation steps
ProtGctf_prepare ==
    /\ cmd_pc = "new"
    /\ prot.kind = "mic"
    /\ ~prot.recalculate
    /\ params' = ProtGctf_prepareCommand(prot, defineValues(prot.lowRes, Form.highResFreq))
    /\ args' = ProtGctf_argsGctf(prot, params')
    /\ cmd_pc' = "ready"
    /\ UNCHANGED <<prot, program, emitted, NotCommand>>

\* ProtGctf._estimateCtfList, up to runJob
ProtGctf_estimateCtfList ==
    /\ cmd_pc = "ready"
    /\ prot.kind = "mic"
    /\ ~prot.recalculate
    /\ Len(emitted) < MaxRuns
    /\ params' = IF prot.ctfDownFactor # 1
                 THEN ("scannedPixelSize" :> Acq.scannedPixelSize * prot.ctfDownFactor)
                          @@ params
                 ELSE params
    /\ emitted' = Emit("_estimateCtfList", EmptyDict,
                       PyFormat(args, params') \o <<Arg("", Lit("micPath/*.mrc"))>>)
    /\ UNCHANGED <<prot, args, program, cmd_pc, NotCommand>>

\* ProtGctf._restimateCTF, up to runJob
ProtGctf_restimateCTF ==
    /\ cmd_pc \in {"new", "ready"}
    /\ prot.kind = "mic"
    /\ prot.recalculate
    /\ Len(emitted) < MaxRuns
    /\ \E line \in RecalLines :
          /\ params' = ProtGctf_prepareRecalCommand(line)
          /\ args' = ProtGctf_argsGctf(prot, params')
          /\ emitted' = Emit("_restimateCTF", EmptyDict,
                             PyFormat(args', params') \o <<Arg("", Lit("micFnMrc"))>>)
    /\ cmd_pc' = "ready"
    /\ UNCHANGED <<prot, program, NotCommand>>

\* ProtGctfRefine._insertAllSteps: _defineValues and _prepareCommand
ProtGctfRefine_insertAllSteps ==
    /\ cmd_pc = "new"
    /\ prot.kind = "refine"
    /\ params' = ProtGctfRefine_prepareCommand(prot, defineValues(prot.lowRes, Form.highRes))
    /\ args' = ProtGctfRefine_argsGctf(prot, params')
    /\ cmd_pc' = "ready"
    /\ UNCHANGED <<prot, program, emitted, NotCommand>>

\* ProtGctfRefine.refineCtfStep, up to runJob
ProtGctfRefine_refineCtfStep ==
    /\ cmd_pc = "ready"
    /\ prot.kind = "refine"
    /\ Len(emitted) < MaxRuns
    /\ \E matched \in (IF prot.useInputCtf THEN BOOLEAN ELSE {FALSE}), ctf \in InputCtfs :
          LET scaled == IF prot.ctfDownFactor # 1
                        THEN ("scannedPixelSize" :> Acq.scannedPixelSize * prot.ctfDownFactor)
                                 @@ params
                        ELSE params
              \* the entries of the input CTF matched to this micrograph
              own    == IF matched THEN refineCtfStep_params(ctf) ELSE EmptyDict
          IN  /\ params' = own @@ scaled
              /\ args' = IF matched THEN args \o refineCtfStep_args(params') ELSE args
              /\ emitted' = Emit("refineCtfStep", own,
                                 PyFormat(args', params') \o <<Arg("", Lit("micFnMrc"))>>)
    /\ UNCHANGED <<prot, program, cmd_pc, NotCommand>>

CommandNext ==
    \/ ProtTsGctf_initialize
    \/ ProtTsGctf_estimateCtf
    \/ ProgramGctf_getCommand_call
    \/ ProtGctf_prepare
    \/ ProtGctf_estimateCtfList
    \/ ProtGctf_restimateCTF
    \/ ProtGctfRefine_insertAllSteps
    \/ ProtGctfRefine_refineCtfStep


-----------------------------------------------------------------------------
(* Batch steps: ProtGctf._estimateCtfList and _restimateCTF,               *)
(* ProtGctfRefine.refineCtfStep, ProtTsGctf.processTiltSeriesStep, and the *)
(* creation of the outputs.  A path is (directory, image, suffix); a step  *)
(* threads the files on disk, the calls made so far and whether an         *)
(* exception is in flight through the statements of the handler.           *)

\* Most batches of a run, and most images of a batch.
MaxBatches == 2

MaxImages == 2

ExtraDir == <<"extra", 0, 0>>

TmpDir == <<"tmp", 0, 0>>

Path(dir, base, suffix) == [dir |-> dir, base |-> base, suffix |-> suffix]

\* the directory image i of batch b is converted into
WorkDirOf(kind, b, i) ==
    CASE kind = "ts" -> <<"work", b, i>>
      [] kind = "recal" -> TmpDir
      [] OTHER -> <<"work", b, 0>>

\* files the binary writes next to a converted image
ArtifactsOf(kind) ==
    IF kind = "refine" THEN <<".ctf", "_gctf.log", "_EPA.log", "_local.star">>
    ELSE <<"ext", "_gctf.log", "_EPA.log">>

Event(op, b, i, what) == [op |-> op, b |-> b, i |-> i, what |-> what]

Call(st, ev) == [st EXCEPT !.calls = Append(@, ev)]

\* ih.convert / ih.scaleFourier: raises on an image that cannot be read
convert(st, un, b, i, path) ==
    IF st.raised THEN st
    ELSE IF <<b, i>> \in un
         THEN [Call(st, Event("convert", b, i, "raise")) EXCEPT !.raised = TRUE]
         ELSE [Call(st, Event("convert", b, i, ".mrc")) EXCEPT !.fs = @ \cup {path}]

\* pwutils.cleanPath
cleanPath(st, b, i, path) ==
    IF st.raised THEN st
    ELSE [Call(st, Event("cleanPath", b, i, path.suffix)) EXCEPT !.fs = @ \ {path}]

\* a moveFile that leaves the source in place
moveFileCopies(st, b, i, src, dst) ==
    IF st.raised THEN st
    ELSE IF src \notin st.fs
         THEN [Call(st, Event("moveFile", b, i, src.suffix)) EXCEPT !.raised = TRUE]
         ELSE [Call(st, Event("moveFile", b, i, src.suffix)) EXCEPT !.fs = @ \cup {dst}]

\* pwutils.moveFile: raises when the source does not exist
moveFile(st, b, i, src, dst) ==
    IF st.raised THEN st
    ELSE IF src \notin st.fs
         THEN [Call(st, Event("moveFile", b, i, src.suffix)) EXCEPT !.raised = TRUE]
         ELSE [Call(st, Event("moveFile", b, i, src.suffix)) EXCEPT
                   !.fs = (@ \ {src}) \cup {dst}]

\* how a run of the binary can end: exit 0 with every output written, exit
\* 0 with the outputs of the last image of the directory missing, failure
Outcomes == {"ok", "partial", "fail"}

\* the converted images the glob (or the single path) of a run matches
Matched(paths, dir) == {f \in paths : f.dir = dir /\ f.suffix = ".mrc"}

LastOf(ms) == CHOOSE f \in ms : \A g \in ms : g.base[2] <= f.base[2]

Written(kind, ms) ==
    {Path(f.dir, f.base, ArtifactsOf(kind)[k]) :
        f \in ms, k \in 1..Len(ArtifactsOf(kind))}

\* self.runJob(program, args) on the converted images ms: raises when the
\* binary fails
runJob(st, kind, b, i, ms, outcome) ==
    IF st.raised THEN st
    ELSE LET done == IF outcome = "partial" /\ ms # {} THEN ms \ {LastOf(ms)} ELSE ms
         IN  IF outcome = "fail"
             THEN [Call(st, Event("runJob", b, i, "raise")) EXCEPT !.raised = TRUE]
             ELSE [Call(st, Event("runJob", b, i, outcome)) EXCEPT
                       !.fs = @ \cup Written(kind, done)]

\* an except clause that lets the exception through
LogErrorReraise(st, b) == st

\* except: print / self.error, the exception is swallowed
LogError(st, b) ==
    IF st.raised
    THEN [Call(st, Event("error", b, 0, "logged")) EXCEPT !.raised = FALSE]
    ELSE st

\* ProtGctf._getPsdPath, _getCtfOutPath, _getCtfFitOutPath (and
\* _getCtfLocalOutPath of ProtGctfRefine)
OutPath(base, suffix) ==
    Path(ExtraDir, base,
         CASE suffix = "_gctf.log" -> "_ctf.log"
           [] suffix = "_EPA.log" -> "_ctf_EPA.log"
           [] suffix = "_local.star" -> "_local.star"
           [] OTHER -> "_ctf.mrc")

\* _estimateCtfList: for mic in micList, convert on demand (lines 303-316)
RECURSIVE estimateCtfList_convert(_, _, _, _, _)
estimateCtfList_convert(st, un, b, i, n) ==
    IF i > n THEN st
    ELSE estimateCtfList_convert(
             convert(st, un, b, i, Path(WorkDirOf("mic", b, i), <<b, i>>, ".mrc")),
             un, b, i + 1, n)

\* _estimateCtfList: for mic in micList, clean and move (lines 324-342)
RECURSIVE estimateCtfList_move(_, _, _, _)
estimateCtfList_move(st, b, i, n) ==
    IF i > n THEN st
    ELSE LET dir == WorkDirOf("mic", b, i)
             base == <<b, i>>
             s1 == cleanPath(st, b, i, Path(dir, base, ".mrc"))
             s2 == moveFile(s1, b, i, Path(dir, base, "ext"), OutPath(base, "ext"))
             s3 == moveFile(s2, b, i, Path(dir, base, "_gctf.log"), OutPath(base, "_gctf.log"))
             s4 == moveFile(s3, b, i, Path(dir, base, "_EPA.log"), OutPath(base, "_EPA.log"))
         IN  estimateCtfList_move(s4, b, i + 1, n)

\* ProtGctf._estimateCtfList for batch b of n micrographs
estimateCtfList(st, un, b, n, outcome) ==
    LET converted == estimateCtfList_convert(st, un, b, 1, n)
        ran == runJob(converted, "mic", b, 0,
                      Matched(converted.fs, WorkDirOf("mic", b, 0)), outcome)
    IN  IF converted.raised THEN converted
        ELSE LogError(estimateCtfList_move(ran, b, 1, n), b)

\* ProtGctf._restimateCTF for the CTF b: only runJob is inside the try
restimateCTF(st, un, b, outcome) ==
    LET base == <<b, 1>>
        mrc == Path(TmpDir, base, ".mrc")
        converted == convert(st, un, b, 1, mrc)
        ran == LogError(runJob(converted, "recal", b, 1, {mrc} \cap converted.fs, outcome), b)
        s1 == cleanPath(ran, b, 1, mrc)
        s2 == moveFile(s1, b, 1, Path(TmpDir, base, "ext"), OutPath(base, "ext"))
        s3 == moveFile(s2, b, 1, Path(TmpDir, base, "_gctf.log"), OutPath(base, "_gctf.log"))
        s4 == moveFile(s3, b, 1, Path(TmpDir, base, "_EPA.log"), OutPath(base, "_EPA.log"))
    IN  s4

\* ProtGctfRefine.refineCtfStep for the micrograph b
refineCtfStep(st, un, b, outcome) ==
    LET base == <<b, 1>>
        dir == WorkDirOf("refine", b, 1)
        mrc == Path(dir, base, ".mrc")
        converted == convert(st, un, b, 1, mrc)
        ran == runJob(converted, "refine", b, 1, {mrc} \cap converted.fs, outcome)
        s1 == cleanPath(ran, b, 1, mrc)
        s2 == moveFile(s1, b, 1, Path(dir, base, ".ctf"), OutPath(base, ".ctf"))
        s3 == moveFile(s2, b, 1, Path(dir, base, "_gctf.log"), OutPath(base, "_gctf.log"))
        s4 == moveFile(s3, b, 1, Path(dir, base, "_EPA.log"), OutPath(base, "_EPA.log"))
        s5 == moveFile(s4, b, 1, Path(dir, base, "_local.star"), OutPath(base, "_local.star"))
    IN  IF converted.raised THEN converted ELSE LogError(s5, b)

\* ProtTsGctf._estimateCtf for the tilt image i of the series b
estimateCtf(st, b, i, outcome) ==
    LET base == <<b, i>>
        dir == WorkDirOf("ts", b, i)
        ran == runJob(st, "ts", b, i, Matched(st.fs, dir), outcome)
        s1 == moveFile(ran, b, i, Path(dir, base, "ext"), Path(ExtraDir, base, "_ctf.mrc"))
        s2 == moveFile(s1, b, i, Path(dir, base, "_gctf.log"), Path(TmpDir, base, "_gctf.log"))
        s3 == moveFile(s2, b, i, Path(dir, base, "_EPA.log"), Path(ExtraDir, base, "_EPA.log"))
    IN  LogError(s3, b)

\* ProtTsGctf.processTiltSeriesStep for the series b of n tilt images:
\* every tilt image is converted and then estimated on its own
RECURSIVE processTiltSeriesStep(_, _, _, _, _, _)
processTiltSeriesStep(st, un, b, i, n, outs) ==
    IF i > n \/ st.raised THEN st
    ELSE LET converted == convert(st, un, b, i, Path(WorkDirOf("ts", b, i), <<b, i>>, ".mrc"))
         IN  processTiltSeriesStep(
                 IF converted.raised THEN converted
                 ELSE estimateCtf(converted, b, i, outs[i]),
                 un, b, i + 1, n, outs)

Images(c) == (1..c.nBatches) \X (1..c.nImages)

\* readCtfModel on a log that may be missing: the sentinel record (-999, -1,
\* -999) or the values of the log
CtfFrom(paths, logPath) == IF logPath \in paths THEN "estimated" ELSE "sentinel"

\* how many times the CTF models of a run are created
MaxCreations == 2

\* sampling rate of the input micrographs, in thousandths of an Angstrom
InputSampling == 1237

\* ProtGctf._createCtfModel: the sampling rate of mic after the call
createCtfModel_sampling(rate, ctfDownFactor, updateSampling) ==
    IF updateSampling THEN rate * ctfDownFactor ELSE rate

\* ProtGctf._createCtfModel for every micrograph
createCtfModel(paths, c) ==
    [im \in Images(c) |-> CtfFrom(paths, OutPath(im, "_gctf.log"))]

\* ProtTsGctf.createOutputStep / getCtf for every tilt image
createOutputStep_ts(paths, c) ==
    [im \in Images(c) |-> CtfFrom(paths, Path(TmpDir, im, "_gctf.log"))]

\* ProtGctfRefine.createOutputStep: particles of a micrograph with no
\* _local.star file are skipped
createOutputStep_refine(paths, c) ==
    [im \in Images(c) |->
        IF OutPath(im, "_local.star") \in paths THEN "estimated" ELSE "omitted"]

NoBatches == [kind |-> "none", nBatches |-> 0, nImages |-> 0, un |-> {}, ctfDownFactor |-> 1]

\* runs: the protocol, its batches, and at most one image that cannot be read
BatchRuns ==
    UNION {{[kind |-> k, nBatches |-> nb, nImages |-> ni, un |-> u,
              ctfDownFactor |-> f] :
               u \in {{}} \cup {{im} : im \in (1..nb) \X (1..ni)}} :
           k \in {"mic", "recal", "refine", "ts"}, nb \in 1..MaxBatches,
           ni \in 1..MaxImages, f \in {1, 2}}

Now == [fs |-> disk, calls |-> calls, raised |-> FALSE]

\* the step of batch 'step' has ended in state st: an exception that left the
\* handler fails the run, otherwise the next batch, or the outputs, follow
StepEnds(st) ==
    /\ disk' = st.fs
    /\ calls' = st.calls
    /\ b_pc' = IF st.raised THEN "aborted"
               ELSE IF step = bt.nBatches THEN "output" ELSE "steps"
    /\ step' = IF st.raised THEN step ELSE step + 1
    /\ UNCHANGED <<bt, outputs, rates, created, NotBatch>>

Step_estimateCtfList ==
    /\ b_pc = "steps"
    /\ bt.kind = "mic"
    /\ \E outcome \in Outcomes :
          StepEnds(estimateCtfList(Now, bt.un, step, bt.nImages, outcome))

Step_restimateCTF ==
    /\ b_pc = "steps"
    /\ bt.kind = "recal"
    /\ \E outcome \in Outcomes : StepEnds(restimateCTF(Now, bt.un, step, outcome))

Step_refineCtfStep ==
    /\ b_pc = "steps"
    /\ bt.kind = "refine"
    /\ \E outcome \in Outcomes : StepEnds(refineCtfStep(Now, bt.un, step, outcome))

Step_processTiltSeriesStep ==
    /\ b_pc = "steps"
    /\ bt.kind = "ts"
    /\ \E outs \in [1..bt.nImages -> Outcomes] :
          StepEnds(processTiltSeriesStep(Now, bt.un, step, 1, bt.nImages, outs))

\* _createCtfModel on every micrograph object of the run; the caller may
\* create the CTF models of the same objects again.  The recalculation passes
\* the micrograph of the input CTF, whose sampling is already the downsampled
\* one, with updateSampling=False.
Step_createCtfModel ==
    /\ b_pc \in {"output", "done"}
    /\ bt.kind \in {"mic", "recal"}
    /\ created < MaxCreations
    /\ outputs' = createCtfModel(disk, bt)
    /\ rates' = [im \in Images(bt) |->
                       createCtfModel_sampling(rates[im], bt.ctfDownFactor,
                                               bt.kind = "mic")]
    /\ created' = created + 1
    /\ b_pc' = "done"
    /\ UNCHANGED <<bt, step, disk, calls, NotBatch>>

Step_createOutputStep_ts ==
    /\ b_pc = "output"
    /\ bt.kind = "ts"
    /\ outputs' = createOutputStep_ts(disk, bt)
    /\ b_pc' = "done"
    /\ UNCHANGED <<bt, step, disk, calls, rates, created, NotBatch>>

Step_createOutputStep_refine ==
    /\ b_pc = "output"
    /\ bt.kind = "refine"
    /\ outputs' = createOutputStep_refine(disk, bt)
    /\ b_pc' = "done"
    /\ UNCHANGED <<bt, step, disk, calls, rates, created, NotBatch>>

BatchNext ==
    \/ Step_estimateCtfList
    \/ Step_restimateCTF
    \/ Step_refineCtfStep
    \/ Step_processTiltSeriesStep
    \/ Step_createCtfModel
    \/ Step_createOutputStep_ts
    \/ Step_createOutputStep_refine


-----------------------------------------------------------------------------
(* Validation: _validate of the three protocols *)

\* Most processes (MPI or threads) and most GPU ids of a protocol.
MaxProcs == 3

MaxGpus == 3

GpuError == "Multiple GPUs can not be used by a single process."

VersionError == "Gctf version 1.18 does not support local refinement."

CtfsError == "Please provide input CTFs for refinement."

\* ProtGctf._validate
ProtGctf_validateErrors(v) ==
    LET nprocs == IF v.numberOfMpi > v.numberOfThreads
                  THEN v.numberOfMpi ELSE v.numberOfThreads
    IN  IF nprocs < v.gpus THEN {GpuError} ELSE {}

\* ProtTsGctf._validate
ProtTsGctf_validateErrors(v) == {}

\* bool(self._getCtfs): a bound method, not its result
getCtfsTruth(v) == TRUE

\* ProtGctfRefine._validate
ProtGctfRefine_validateErrors(v) ==
    (IF v.version \in {"1.18"} THEN {VersionError} ELSE {})
        \cup (IF v.useInputCtf /\ ~getCtfsTruth(v) THEN {CtfsError} ELSE {})

NoValidation ==
    [kind |-> "none", numberOfMpi |-> 1, numberOfThreads |-> 1, gpus |-> 1,
     version |-> "1.18", useInputCtf |-> FALSE, hasCtfs |-> FALSE]

Validations ==
    [kind : {"mic", "refine", "ts"}, numberOfMpi : 1..MaxProcs,
     numberOfThreads : 1..MaxProcs, gpus : 1..MaxGpus, version : Versions,
     useInputCtf : BOOLEAN, hasCtfs : BOOLEAN]

ProtGctf_validate ==
    /\ v_pc = "new"
    /\ vd.kind = "mic"
    /\ errors' = ProtGctf_validateErrors(vd)
    /\ v_pc' = "done"
    /\ UNCHANGED <<vd, NotValidate>>

ProtTsGctf_validate ==
    /\ v_pc = "new"
    /\ vd.kind = "ts"
    /\ errors' = ProtTsGctf_validateErrors(vd)
    /\ v_pc' = "done"
    /\ UNCHANGED <<vd, NotValidate>>

ProtGctfRefine_validate ==
    /\ v_pc = "new"
    /\ vd.kind = "refine"
    /\ errors' = ProtGctfRefine_validateErrors(vd)
    /\ v_pc' = "done"
    /\ UNCHANGED <<vd, NotValidate>>

ValidateNext ==
    \/ ProtGctf_validate
    \/ ProtTsGctf_validate
    \/ ProtGctfRefine_validate

-----------------------------------------------------------------------------
(* File names and the path of the local-refinement star file *)

\* most dot-separated parts of a base name
MaxParts == 3

NameParts == {"mic", "0001", "mrc", "ctf"}

\* a file name: its directory and the parts of its base name between dots
\* ('Runs/mic.0001.mrc' has the parts mic, 0001, mrc); a path the protocol
\* builds also has the suffix put after the base
FileNames ==
    [dir : {"", "Runs"}, suffix : {""},
     parts : UNION {[1..n -> NameParts] : n \in 1..MaxParts}]

NoName == [dir |-> "", parts |-> <<>>, suffix |-> ""]

\* pwutils.removeBaseExt: the base name without its last extension
removeBaseExt(fn) ==
    [dir |-> "",
     parts |-> IF Len(fn.parts) > 1 THEN SubSeq(fn.parts, 1, Len(fn.parts) - 1)
               ELSE fn.parts,
     suffix |-> ""]

\* ProtGctfRefine._getCtfLocalOutPath
getCtfLocalOutPath(fn) ==
    [dir |-> "extra", parts |-> removeBaseExt(fn).parts, suffix |-> "_local.star"]

\* refineCtfStep: pwutils.moveFile(micFnCtfLocal, micFnCtfLocalOut)
refineCtfStep_moveFile ==
    /\ n_pc = "new"
    /\ movedTo' = getCtfLocalOutPath(micFn)
    /\ n_pc' = "refined"
    /\ UNCHANGED <<micFn, readFrom, NotPaths>>

\* createOutputStep._newMic: the path it tests and reads
createOutputStep_newMic ==
    /\ n_pc = "refined"
    /\ LET micBase == removeBaseExt(micFn)
       IN  readFrom' = getCtfLocalOutPath(micBase)
    /\ n_pc' = "read"
    /\ UNCHANGED <<micFn, movedTo, NotPaths>>

PathsNext ==
    \/ refineCtfStep_moveFile
    \/ createOutputStep_newMic

-----------------------------------------------------------------------------
(* ProtGctfRefine.createOutputStep *)

\* the file name of micrograph m: one extension, or a base name with a dot
MicFileNames(m) ==
    {[dir |-> "Runs", parts |-> <<m, "mrc">>, suffix |-> ""],
     [dir |-> "Runs", parts |-> <<m, "0001", "mrc">>, suffix |-> ""]}

\* particles by the id of their micrograph, as iterItems(orderBy=['_micId',
\* 'id']) gives them
MicIdLists ==
    {l \in UNION {[1..n -> 1..2] : n \in 0..MaxParticles} :
        \A i \in 1..(Len(l) - 1) : l[i] <= l[i + 1]}

NoOutput ==
    [micIds |-> <<>>, micDict |-> {}, fileName |-> <<>>, stars |-> {},
     idx |-> 0, lastMicId |-> 0, mic |-> None, rowList |-> NoName, rowCounter |-> 0]

\* the runs createOutputStep starts from: refineCtfStep has moved the star
\* file of every micrograph in 'refined' to its place in extra
OutputRuns ==
    {[micIds |-> l, micDict |-> d, fileName |-> f,
      stars |-> {getCtfLocalOutPath(f[m]) : m \in r},
      idx |-> 0, lastMicId |-> 0, mic |-> None, rowList |-> NoName, rowCounter |-> 0] :
        l \in MicIdLists, d \in {{"mic1"}, {"mic1", "mic2"}},
        f \in {g \in [CoordNames -> UNION {MicFileNames(m) : m \in CoordNames}] :
                  \A m \in CoordNames : g[m] \in MicFileNames(m)},
        r \in SUBSET CoordNames}

\* lines 485-489
createOutputStep_Begin ==
    /\ co_pc = "start"
    /\ co' = [co EXCEPT !.idx = 1, !.rowList = NoName, !.rowCounter = 0]
    /\ partSet' = <<>>
    /\ co_pc' = "iter"
    /\ UNCHANGED NotOutput

\* one turn of "for particle in self._iterParticlesMic(newMicCallback=_newMic)":
\* the generator up to its next yield (lines 361-376, _newMic 491-498) and
\* the loop body (lines 501-507).  The rows of a star file are named by the
\* file; there is one for each particle of the micrograph.  A _rowList of
\* None is NoName.
createOutputStep_Particle ==
    /\ co_pc = "iter"
    /\ co.idx <= Len(co.micIds)
    /\ LET micId   == co.micIds[co.idx]
           micName == MicNameOf(micId)
           newMic  == micId # co.lastMicId
           mic     == IF newMic
                      THEN (IF micName \in co.micDict THEN micName ELSE None)
                      ELSE co.mic
           called  == newMic /\ mic # None
           \* _newMic
           micBase == removeBaseExt(co.fileName[micName])
           ctfFn   == getCtfLocalOutPath(micBase)
           rowList == IF called
                      THEN (IF ctfFn \in co.stars THEN ctfFn ELSE NoName)
                      ELSE co.rowList
           counter == IF called THEN 0 ELSE co.rowCounter
           \* the loop body runs for a yielded particle with a row list
           appends == mic # None /\ rowList # NoName
       IN  /\ co' = [co EXCEPT !.idx = @ + 1,
                               !.lastMicId = micId,
                               !.mic = mic,
                               !.rowList = rowList,
                               !.rowCounter = IF appends THEN counter + 1 ELSE counter]
           /\ partSet' = IF appends
                         THEN Append(partSet, [particle |-> co.idx, file |-> rowList,
                                               row |-> counter])
                         ELSE partSet
    /\ co_pc' = "iter"
    /\ UNCHANGED NotOutput

\* lines 509-510
createOutputStep_End ==
    /\ co_pc = "iter"
    /\ co.idx > Len(co.micIds)
    /\ co_pc' = "done"
    /\ UNCHANGED <<co, partSet, NotOutput>>

OutputNext ==
    \/ createOutputStep_Begin
    \/ createOutputStep_Particle
    \/ createOutputStep_End

-----------------------------------------------------------------------------
(* ProtTsGctf: the steps _insertAllSteps inserts, run in parallel *)

\* most tilt series of an input set
MaxSeries == 2

NoSeries == [nSeries |-> 0, nImages |-> 0, un |-> {}]

NoCtfSet == [created |-> 0, series |-> <<>>]

\* the input: its tilt series, the tilt images of each, and at most one
\* tilt image that cannot be read
SeriesRuns ==
    UNION {{[nSeries |-> ns, nImages |-> ni, un |-> u] :
               u \in {{}} \cup {{im} : im \in (1..ns) \X (1..ni)}} :
           ns \in 1..MaxSeries, ni \in 1..MaxImages}

TsIds == 1..tsr.nSeries

\* a step has failed: the executor launches no further step
Failed == \E t \in TsIds : proc[t] = "failed"

\* a createOutputStep that waits for nothing
PrerequisitesNone(t) == TRUE

\* prerequisites=pidProcess
Prerequisites(t) == proc[t] = "finished"

\* a lock that anyone can take
LockFreeAlways(l) == TRUE

\* with self._lock: the lock can be taken
LockFree(l) == l = 0

\* processTiltSeriesStep(tsId) is launched (prerequisites=[])
processTiltSeriesStep_start ==
    \E t \in TsIds :
        /\ proc[t] = "waiting"
        /\ ~Failed
        /\ proc' = [proc EXCEPT ![t] = "running"]
        /\ UNCHANGED <<tsr, outp, lock, tmpLogs, CTFs, closing, NotSteps>>

\* processTiltSeriesStep(tsId) ends: every tilt image has been converted and
\* estimated, a run that succeeded leaving its log in tmp; or a tilt image
\* could not be read and its exception ended the step
processTiltSeriesStep_end ==
    \E t \in TsIds :
        /\ proc[t] = "running"
        /\ LET bad   == {i \in 1..tsr.nImages : <<t, i>> \in tsr.un}
               reach == {i \in 1..tsr.nImages : \A j \in bad : i < j}
           IN  /\ \E ok \in SUBSET reach :
                     tmpLogs' = tmpLogs \cup {<<t, i>> : i \in ok}
               /\ proc' = [proc EXCEPT ![t] = IF bad = {} THEN "finished" ELSE "failed"]
        /\ UNCHANGED <<tsr, outp, lock, CTFs, closing, NotSteps>>

\* createOutputStep(tsId) is launched
createOutputStep_start ==
    \E t \in TsIds :
        /\ outp[t].pc = "waiting"
        /\ Prerequisites(t)
        /\ ~Failed
        /\ outp' = [outp EXCEPT ![t].pc = "lock"]
        /\ UNCHANGED <<tsr, proc, lock, tmpLogs, CTFs, closing, NotSteps>>

\* with self._lock:
createOutputStep_lock ==
    \E t \in TsIds :
        /\ outp[t].pc = "lock"
        /\ LockFree(lock)
        /\ lock' = t
        /\ outp' = [outp EXCEPT ![t].pc = "getattr"]
        /\ UNCHANGED <<tsr, proc, tmpLogs, CTFs, closing, NotSteps>>

\* getOutputCtfTomoSet: outCtfSet = getattr(self, 'CTFs', None)
getOutputCtfTomoSet_getattr ==
    \E t \in TsIds :
        /\ outp[t].pc = "getattr"
        /\ outp' = [outp EXCEPT ![t].pc = "create", ![t].seen = CTFs.created > 0]
        /\ UNCHANGED <<tsr, proc, lock, tmpLogs, CTFs, closing, NotSteps>>

\* getOutputCtfTomoSet: enableAppend, or create the set and define the output
getOutputCtfTomoSet_create ==
    \E t \in TsIds :
        /\ outp[t].pc = "create"
        /\ CTFs' = IF outp[t].seen THEN CTFs
                   ELSE [created |-> CTFs.created + 1, series |-> <<>>]
        /\ outp' = [outp EXCEPT ![t].pc = "append"]
        /\ UNCHANGED <<tsr, proc, lock, tmpLogs, closing, NotSteps>>

\* the CTF series of tsId is appended, one CTF per tilt image is read from
\* the logs (getCtf) and put into it, the set is updated and the lock released
createOutputStep_append ==
    \E t \in TsIds :
        /\ outp[t].pc = "append"
        /\ CTFs' = [CTFs EXCEPT !.series =
                       Append(@, [tsId |-> t, objId |-> t,
                                  ctfs |-> [i \in 1..tsr.nImages |->
                                               CtfFrom(tmpLogs, <<t, i>>)]])]
        /\ lock' = IF lock = t THEN 0 ELSE lock
        /\ outp' = [outp EXCEPT ![t].pc = "done"]
        /\ UNCHANGED <<tsr, proc, tmpLogs, closing, NotSteps>>

\* closeOutputSetsStep (prerequisites=pIdList)
closeOutputSetsStep ==
    /\ closing = "waiting"
    /\ \A t \in TsIds : outp[t].pc = "done"
    /\ ~Failed
    /\ closing' = "finished"
    /\ UNCHANGED <<tsr, proc, outp, lock, tmpLogs, CTFs, NotSteps>>

StepsNext ==
    \/ processTiltSeriesStep_start
    \/ processTiltSeriesStep_end
    \/ createOutputStep_start
    \/ createOutputStep_lock
    \/ getOutputCtfTomoSet_getattr
    \/ getOutputCtfTomoSet_create
    \/ createOutputStep_append
    \/ closeOutputSetsStep

-----------------------------------------------------------------------------
(* Specifications *)

NoParticles ==
    [particles |-> <<>>, micDict |-> {}, applyShifts |-> FALSE,
     alignNone |-> FALSE, partSampling |-> 1, micSampling |-> 1,
     idx |-> 0, lastMicId |-> 0, mic |-> None, passed |-> [of |-> 0, argv |-> <<>>]]

\* readCtfModel is called on a file name
ParserInit ==
    /\ log \in {[exists |-> FALSE, lines |-> <<>>]}
                 \cup {[exists |-> TRUE, lines |-> l] : l \in Logs}
    /\ pc = "call"
    /\ lineNo = 0
    /\ result = None
    /\ warnings = 0
    /\ ctfModel = EmptyCtf
    /\ files = [fn \in CoordNames |-> NoFile]
    /\ openFiles = {}
    /\ lastWriter = None
    /\ w_pc = "idle"
    /\ written = <<>>
    /\ cv = NoParticles
    /\ cv_pc = "idle"
    /\ prot = NoProtocol
    /\ params = EmptyDict
    /\ args = <<>>
    /\ program = NoProgram
    /\ emitted = <<>>
    /\ cmd_pc = "idle"
    /\ bt = NoBatches
    /\ b_pc = "idle"
    /\ step = 0
    /\ disk = {}
    /\ calls = <<>>
    /\ outputs = <<>>
    /\ vd = NoValidation
    /\ errors = {}
    /\ v_pc = "idle"
    /\ rates = <<>>
    /\ created = 0
    /\ micFn = NoName
    /\ movedTo = NoName
    /\ readFrom = NoName
    /\ n_pc = "idle"
    /\ co = NoOutput
    /\ partSet = <<>>
    /\ co_pc = "idle"
    /\ tsr = NoSeries
    /\ proc = <<>>
    /\ outp = <<>>
    /\ lock = 0
    /\ tmpLogs = {}
    /\ CTFs = NoCtfSet
    /\ closing = "idle"

SpecParser == ParserInit /\ [][ParserNext]_vars

\* a caller is about to open a CoordinatesWriter
WriterInit ==
    /\ log = [exists |-> FALSE, lines |-> <<>>]
    /\ pc = "idle"
    /\ lineNo = 0
    /\ result = None
    /\ warnings = 0
    /\ ctfModel = EmptyCtf
    /\ files = [fn \in CoordNames |-> NoFile]
    /\ openFiles = {}
    /\ lastWriter = None
    /\ w_pc = "new"
    /\ written = <<>>
    /\ cv = NoParticles
    /\ cv_pc = "idle"
    /\ prot = NoProtocol
    /\ params = EmptyDict
    /\ args = <<>>
    /\ program = NoProgram
    /\ emitted = <<>>
    /\ cmd_pc = "idle"
    /\ bt = NoBatches
    /\ b_pc = "idle"
    /\ step = 0
    /\ disk = {}
    /\ calls = <<>>
    /\ outputs = <<>>
    /\ vd = NoValidation
    /\ errors = {}
    /\ v_pc = "idle"
    /\ rates = <<>>
    /\ created = 0
    /\ micFn = NoName
    /\ movedTo = NoName
    /\ readFrom = NoName
    /\ n_pc = "idle"
    /\ co = NoOutput
    /\ partSet = <<>>
    /\ co_pc = "idle"
    /\ tsr = NoSeries
    /\ proc = <<>>
    /\ outp = <<>>
    /\ lock = 0
    /\ tmpLogs = {}
    /\ CTFs = NoCtfSet
    /\ closing = "idle"

SpecWriter == WriterInit /\ [][WriterNext]_vars

\* convertInputStep of the refinement protocol is about to run
ConvertInit ==
    /\ log = [exists |-> FALSE, lines |-> <<>>]
    /\ pc = "idle"
    /\ lineNo = 0
    /\ result = None
    /\ warnings = 0
    /\ ctfModel = EmptyCtf
    /\ files = [fn \in CoordNames |-> NoFile]
    /\ openFiles = {}
    /\ lastWriter = None
    /\ w_pc = "idle"
    /\ written = <<>>
    /\ cv \in [particles : ParticleSets,
               micDict : {{"mic1"}, {"mic1", "mic2"}},
               applyShifts : BOOLEAN,
               alignNone : BOOLEAN,
               partSampling : {1, 2},
               micSampling : {1, 2},
               idx : {0},
               lastMicId : {0},
               mic : {None},
               passed : {[of |-> 0, argv |-> <<>>]}]
    /\ cv_pc = "start"
    /\ prot = NoProtocol
    /\ params = EmptyDict
    /\ args = <<>>
    /\ program = NoProgram
    /\ emitted = <<>>
    /\ cmd_pc = "idle"
    /\ bt = NoBatches
    /\ b_pc = "idle"
    /\ step = 0
    /\ disk = {}
    /\ calls = <<>>
    /\ outputs = <<>>
    /\ vd = NoValidation
    /\ errors = {}
    /\ v_pc = "idle"
    /\ rates = <<>>
    /\ created = 0
    /\ micFn = NoName
    /\ movedTo = NoName
    /\ readFrom = NoName
    /\ n_pc = "idle"
    /\ co = NoOutput
    /\ partSet = <<>>
    /\ co_pc = "idle"
    /\ tsr = NoSeries
    /\ proc = <<>>
    /\ outp = <<>>
    /\ lock = 0
    /\ tmpLogs = {}
    /\ CTFs = NoCtfSet
    /\ closing = "idle"

SpecConvert == ConvertInit /\ [][ConvertNext]_vars

\* a protocol with its form filled in is about to run
CommandInit ==
    /\ log = [exists |-> FALSE, lines |-> <<>>]
    /\ pc = "idle"
    /\ lineNo = 0
    /\ result = None
    /\ warnings = 0
    /\ ctfModel = EmptyCtf
    /\ files = [fn \in CoordNames |-> NoFile]
    /\ openFiles = {}
    /\ lastWriter = None
    /\ w_pc = "idle"
    /\ written = <<>>
    /\ cv = NoParticles
    /\ cv_pc = "idle"
    /\ prot \in Protocols
    /\ params = EmptyDict
    /\ args = <<>>
    /\ program = NoProgram
    /\ emitted = <<>>
    /\ cmd_pc = "new"
    /\ bt = NoBatches
    /\ b_pc = "idle"
    /\ step = 0
    /\ disk = {}
    /\ calls = <<>>
    /\ outputs = <<>>
    /\ vd = NoValidation
    /\ errors = {}
    /\ v_pc = "idle"
    /\ rates = <<>>
    /\ created = 0
    /\ micFn = NoName
    /\ movedTo = NoName
    /\ readFrom = NoName
    /\ n_pc = "idle"
    /\ co = NoOutput
    /\ partSet = <<>>
    /\ co_pc = "idle"
    /\ tsr = NoSeries
    /\ proc = <<>>
    /\ outp = <<>>
    /\ lock = 0
    /\ tmpLogs = {}
    /\ CTFs = NoCtfSet
    /\ closing = "idle"

SpecCommand == CommandInit /\ [][CommandNext]_vars

\* a protocol is about to run its batch steps
BatchInit ==
    /\ log = [exists |-> FALSE, lines |-> <<>>]
    /\ pc = "idle"
    /\ lineNo = 0
    /\ result = None
    /\ warnings = 0
    /\ ctfModel = EmptyCtf
    /\ files = [fn \in CoordNames |-> NoFile]
    /\ openFiles = {}
    /\ lastWriter = None
    /\ w_pc = "idle"
    /\ written = <<>>
    /\ cv = NoParticles
    /\ cv_pc = "idle"
    /\ prot = NoProtocol
    /\ params = EmptyDict
    /\ args = <<>>
    /\ program = NoProgram
    /\ emitted = <<>>
    /\ cmd_pc = "idle"
    /\ bt \in {c \in BatchRuns : c.kind \in {"mic", "ts"} \/ c.nImages = 1}
    /\ b_pc = "steps"
    /\ step = 1
    /\ disk = {}
    /\ calls = <<>>
    /\ outputs = <<>>
    /\ vd = NoValidation
    /\ errors = {}
    /\ v_pc = "idle"
    /\ rates = [im \in Images(bt) |-> InputSampling]
    /\ created = 0
    /\ micFn = NoName
    /\ movedTo = NoName
    /\ readFrom = NoName
    /\ n_pc = "idle"
    /\ co = NoOutput
    /\ partSet = <<>>
    /\ co_pc = "idle"
    /\ tsr = NoSeries
    /\ proc = <<>>
    /\ outp = <<>>
    /\ lock = 0
    /\ tmpLogs = {}
    /\ CTFs = NoCtfSet
    /\ closing = "idle"

SpecBatch == BatchInit /\ [][BatchNext]_vars

\* a protocol with its form filled in is about to be validated
ValidateInit ==
    /\ log = [exists |-> FALSE, lines |-> <<>>]
    /\ pc = "idle"
    /\ lineNo = 0
    /\ result = None
    /\ warnings = 0
    /\ ctfModel = EmptyCtf
    /\ files = [fn \in CoordNames |-> NoFile]
    /\ openFiles = {}
    /\ lastWriter = None
    /\ w_pc = "idle"
    /\ written = <<>>
    /\ cv = NoParticles
    /\ cv_pc = "idle"
    /\ prot = NoProtocol
    /\ params = EmptyDict
    /\ args = <<>>
    /\ program = NoProgram
    /\ emitted = <<>>
    /\ cmd_pc = "idle"
    /\ bt = NoBatches
    /\ b_pc = "idle"
    /\ step = 0
    /\ disk = {}
    /\ calls = <<>>
    /\ outputs = <<>>
    /\ vd \in Validations
    /\ errors = {}
    /\ v_pc = "new"
    /\ rates = <<>>
    /\ created = 0
    /\ micFn = NoName
    /\ movedTo = NoName
    /\ readFrom = NoName
    /\ n_pc = "idle"
    /\ co = NoOutput
    /\ partSet = <<>>
    /\ co_pc = "idle"
    /\ tsr = NoSeries
    /\ proc = <<>>
    /\ outp = <<>>
    /\ lock = 0
    /\ tmpLogs = {}
    /\ CTFs = NoCtfSet
    /\ closing = "idle"

SpecValidate == ValidateInit /\ [][ValidateNext]_vars

\* a micrograph of the input set is about to be refined
PathsInit ==
    /\ log = [exists |-> FALSE, lines |-> <<>>]
    /\ pc = "idle"
    /\ lineNo = 0
    /\ result = None
    /\ warnings = 0
    /\ ctfModel = EmptyCtf
    /\ files = [fn \in CoordNames |-> NoFile]
    /\ openFiles = {}
    /\ lastWriter = None
    /\ w_pc = "idle"
    /\ written = <<>>
    /\ cv = NoParticles
    /\ cv_pc = "idle"
    /\ prot = NoProtocol
    /\ params = EmptyDict
    /\ args = <<>>
    /\ program = NoProgram
    /\ emitted = <<>>
    /\ cmd_pc = "idle"
    /\ bt = NoBatches
    /\ b_pc = "idle"
    /\ step = 0
    /\ disk = {}
    /\ calls = <<>>
    /\ outputs = <<>>
    /\ vd = NoValidation
    /\ errors = {}
    /\ v_pc = "idle"
    /\ rates = <<>>
    /\ created = 0
    /\ micFn \in FileNames
    /\ movedTo = NoName
    /\ readFrom = NoName
    /\ n_pc = "new"
    /\ co = NoOutput
    /\ partSet = <<>>
    /\ co_pc = "idle"
    /\ tsr = NoSeries
    /\ proc = <<>>
    /\ outp = <<>>
    /\ lock = 0
    /\ tmpLogs = {}
    /\ CTFs = NoCtfSet
    /\ closing = "idle"

SpecPaths == PathsInit /\ [][PathsNext]_vars

\* the refinement steps are over, the output is about to be created
OutputInit ==
    /\ log = [exists |-> FALSE, lines |-> <<>>]
    /\ pc = "idle"
    /\ lineNo = 0
    /\ result = None
    /\ warnings = 0
    /\ ctfModel = EmptyCtf
    /\ files = [fn \in CoordNames |-> NoFile]
    /\ openFiles = {}
    /\ lastWriter = None
    /\ w_pc = "idle"
    /\ written = <<>>
    /\ cv = NoParticles
    /\ cv_pc = "idle"
    /\ prot = NoProtocol
    /\ params = EmptyDict
    /\ args = <<>>
    /\ program = NoProgram
    /\ emitted = <<>>
    /\ cmd_pc = "idle"
    /\ bt = NoBatches
    /\ b_pc = "idle"
    /\ step = 0
    /\ disk = {}
    /\ calls = <<>>
    /\ outputs = <<>>
    /\ vd = NoValidation
    /\ errors = {}
    /\ v_pc = "idle"
    /\ rates = <<>>
    /\ created = 0
    /\ micFn = NoName
    /\ movedTo = NoName
    /\ readFrom = NoName
    /\ n_pc = "idle"
    /\ co \in OutputRuns
    /\ partSet = <<>>
    /\ co_pc = "start"
    /\ tsr = NoSeries
    /\ proc = <<>>
    /\ outp = <<>>
    /\ lock = 0
    /\ tmpLogs = {}
    /\ CTFs = NoCtfSet
    /\ closing = "idle"

SpecOutput == OutputInit /\ [][OutputNext]_vars

\* _insertAllSteps has inserted the steps of every tilt series
StepsInit ==
    /\ log = [exists |-> FALSE, lines |-> <<>>]
    /\ pc = "idle"
    /\ lineNo = 0
    /\ result = None
    /\ warnings = 0
    /\ ctfModel = EmptyCtf
    /\ files = [fn \in CoordNames |-> NoFile]
    /\ openFiles = {}
    /\ lastWriter = None
    /\ w_pc = "idle"
    /\ written = <<>>
    /\ cv = NoParticles
    /\ cv_pc = "idle"
    /\ prot = NoProtocol
    /\ params = EmptyDict
    /\ args = <<>>
    /\ program = NoProgram
    /\ emitted = <<>>
    /\ cmd_pc = "idle"
    /\ bt = NoBatches
    /\ b_pc = "idle"
    /\ step = 0
    /\ disk = {}
    /\ calls = <<>>
    /\ outputs = <<>>
    /\ vd = NoValidation
    /\ errors = {}
    /\ v_pc = "idle"
    /\ rates = <<>>
    /\ created = 0
    /\ micFn = NoName
    /\ movedTo = NoName
    /\ readFrom = NoName
    /\ n_pc = "idle"
    /\ co = NoOutput
    /\ partSet = <<>>
    /\ co_pc = "idle"
    /\ tsr \in SeriesRuns
    /\ proc = [t \in 1..tsr.nSeries |-> "waiting"]
    /\ outp = [t \in 1..tsr.nSeries |-> [pc |-> "waiting", seen |-> FALSE]]
    /\ lock = 0
    /\ tmpLogs = {}
    /\ CTFs = NoCtfSet
    /\ closing = "waiting"

SpecSteps == StepsInit /\ [][StepsNext]_vars

-----------------------------------------------------------------------------
(* Claims about the log parser, checked under SpecParser *)

\* the lines the for loop has read so far
Scanned == 1..(lineNo - 1)

FinalSeen == {i \in Scanned : Contains(log.lines[i], FinalValues)}

Sentinel ==
    [defocusU |-> -999, defocusV |-> -1, defocusAngle |-> -999,
     fitQuality |-> -999, resolution |-> -999, phaseShift |-> Unset]

\* position i of s lies inside an escape sequence: an ESC at or before it,
\* no 'm' between that ESC and i, and an 'm' at i or later
InEscape(s, i) ==
    \E j \in 1..i :
        /\ s[j] = "ESC"
        /\ \A t \in j..(i - 1) : s[t] # "m"
        /\ \E k \in i..Len(s) : k > j /\ s[k] = "m"

RECURSIVE KeepFrom(_, _)
KeepFrom(s, i) ==
    IF i > Len(s) THEN <<>>
    ELSE (IF InEscape(s, i) THEN <<>> ELSE <<s[i]>>) \o KeepFrom(s, i + 1)

\* s with every escape sequence (ESC ... first 'm') removed
EscapesRemoved(s) == KeepFrom(s, 1)

LastToken(s) == LET t == Split(s) IN IF t = <<>> THEN <<>> ELSE t[Len(t)]

\* the log with the escape sequences removed from line i when P(i)
Unescaped(lines, which) ==
    [i \in 1..Len(lines) |-> IF i \in which THEN EscapesRemoved(lines[i]) ELSE lines[i]]

HasEpa(l) == Contains(l, ResolutionLimit)

C2_MissingFile ==
    ~log.exists =>
        /\ pc # "raised"
        /\ pc = "done" => ctfModel = Sentinel
        /\ pc \in {"returned", "done"} => result = None /\ warnings = 1

C2_Witness == pc = "done" /\ ~log.exists /\ ctfModel.defocusV = -1

\* C3: an existing log without a 'Final Values' line reads into the
\* sentinel record, like an absent file.
C3_MalformedIsSentinel ==
    (pc = "done" /\ log.exists
       /\ \A i \in 1..Len(log.lines) : ~Contains(log.lines[i], FinalValues))
        => ctfModel = Sentinel

\* C4 as stated: every line parses to the resolution of the same line with
\* its escape sequences removed.
C4_SameAsUnescaped ==
    (log.exists /\ pc \in {"returned", "raised"}) =>
        LET b == ParseFrom(<<0, 0, 0, 0, 0, 0>>,
                           Unescaped(log.lines, 1..Len(log.lines)))
        IN  /\ (pc = "raised") = b.raised
            /\ pc = "returned" => result[6] = b.result[6]

\* the marker text of line l is whole before and after the removal, and l is
\* no 'Final Values' line
MarkerIntact(l) ==
    /\ HasEpa(l) = HasEpa(EscapesRemoved(l))
    /\ HasEpa(l) => ~Contains(l, FinalValues)

\* C4, amended: on a line that holds the marker text as written, the
\* resolution is the last token after the escape sequences are removed (an
\* error when that token is no number); and a log whose resolution lines keep
\* the marker whole under the removal, and hold no 'Final Values', parses to
\* the same outcome as with the sequences removed from those lines.
C4_Amended ==
    /\ (pc \in {"returned", "raised"} /\ lineNo > 1 /\ HasEpa(log.lines[lineNo - 1])
          /\ ~Contains(log.lines[lineNo - 1], FinalValues)) =>
            LET t == LastToken(EscapesRemoved(log.lines[lineNo - 1]))
            IN  IF IsNum(t) THEN pc = "returned" /\ result[6] = ToNum(t)
                ELSE pc = "raised"
    /\ (log.exists /\ pc \in {"returned", "raised"}
          /\ \A i \in 1..Len(log.lines) : MarkerIntact(log.lines[i])) =>
            LET b == ParseFrom(<<0, 0, 0, 0, 0, 0>>,
                       Unescaped(log.lines,
                                 {i \in 1..Len(log.lines) : HasEpa(log.lines[i])}))
            IN  /\ (pc = "raised") = b.raised
                /\ pc = "returned" => result = b.result

\* a resolution wrapped in colour codes has been read
C4_Witness ==
    /\ pc = "returned" /\ lineNo = 2
    /\ log.lines[1] = EpaWrapped
    /\ result[6] = 8

\* index of the first line holding the resolution marker, 0 when none does
FirstEpa(lines) ==
    IF \E i \in 1..Len(lines) : HasEpa(lines[i])
    THEN CHOOSE i \in 1..Len(lines) :
            HasEpa(lines[i]) /\ \A j \in 1..(i - 1) : ~HasEpa(lines[j])
    ELSE 0

\* C5: the scan stops at the first resolution line: the result is that of the
\* log cut after it, and the last 'Final Values' line before it gives
\* defocusU, defocusV, angle, correlation score and phase shift.
C5_LastFinalLineDecides ==
    (pc = "returned" /\ log.exists /\ FirstEpa(log.lines) > 0
       /\ ~Contains(log.lines[FirstEpa(log.lines)], FinalValues)) =>
        LET k  == FirstEpa(log.lines)
            fs == {i \in 1..(k - 1) : Contains(log.lines[i], FinalValues)}
        IN  /\ lineNo = k + 1
            /\ result = ParseFrom(<<0, 0, 0, 0, 0, 0>>, SubSeq(log.lines, 1, k)).result
            /\ fs # {} =>
                 LET j     == CHOOSE i \in fs : \A h \in fs : h <= i
                     parts == Split(log.lines[j])
                 IN  /\ result[1] = ToNum(parts[1])
                     /\ result[2] = ToNum(parts[2])
                     /\ result[3] = ToNum(parts[3])
                     /\ IF parts[5] = <<"Final">>
                        THEN result[4] = ToNum(parts[4]) /\ result[5] = 0
                        ELSE result[4] = ToNum(parts[5]) /\ result[5] = ToNum(parts[4])

\* a 'Final Values' or resolution line that holds no number where one is read
BadLine(l) ==
    \/ /\ Contains(l, FinalValues)
       /\ LET parts == Split(l)
          IN  \/ Len(parts) < 5
              \/ \E i \in 1..3 : ~IsNum(parts[i])
              \/ ~IsNum(parts[4])
              \/ parts[5] # <<"Final">> /\ ~IsNum(parts[5])
    \/ /\ HasEpa(l)
       /\ ~IsNum(LastToken(EscapesRemoved(l)))

\* the bad lines the scan reaches: none lies after the first resolution line
BadReached ==
    {i \in 1..Len(log.lines) :
        /\ BadLine(log.lines[i])
        /\ \A j \in 1..(i - 1) : ~HasEpa(log.lines[j]) /\ ~BadLine(log.lines[j])}

\* C6: a 'Final Values' or resolution line with a non-numeric token (or too
\* few tokens) ends the parse in an error at that line: parseGctfOutput never
\* returns and readCtfModel stores nothing in the CTF model.
C6_ParseErrorPropagates ==
    (log.exists /\ BadReached # {}) =>
        LET b == CHOOSE i \in BadReached : TRUE
        IN  /\ pc \in {"call", "scan", "raised"}
            /\ pc = "scan" => lineNo <= b
            /\ pc = "raised" => lineNo = b + 1 /\ result = Unset
            /\ ctfModel = EmptyCtf

\* a malformed resolution line after a well-formed 'Final Values' line
C6_Witness ==
    /\ pc = "raised" /\ lineNo = 3
    /\ log.lines[1] \in WellFormedFinal
    /\ log.lines[2] = EpaMalformed


-----------------------------------------------------------------------------
(* Claims about the coordinate writer, checked under SpecWriter and
   SpecConvert *)

\* int() of a token of a coordinate file
ParseInt(tok) == IF tok # <<>> /\ tok[1] = "-" THEN -ToNum(Tail(tok)) ELSE ToNum(tok)

WellFormedInt(tok) ==
    IF tok # <<>> /\ tok[1] = "-" THEN IsNum(Tail(tok)) ELSE IsNum(tok)

DataLines(content) == SubSeq(content, Len(HEADER) + 1, Len(content))

\* every data line is two integers separated by one space
TwoIntegers(content) ==
    \A i \in 1..Len(DataLines(content)) :
        LET l == DataLines(content)[i]
            t == Split(l)
        IN  /\ Len(t) = 2
            /\ WellFormedInt(t[1]) /\ WellFormedInt(t[2])
            /\ l = t[1] \o <<" ">> \o t[2]

\* the pairs read back from a coordinate file
ReadCoords(content) ==
    [i \in 1..Len(DataLines(content)) |->
        LET t == Split(DataLines(content)[i])
        IN  <<ParseInt(t[1]), ParseInt(t[2])>>]

\* C7: after open, one writeCoord per pair and close, the file is the HEADER
\* followed by one line of two space-separated integers per pair, and reading
\* it back gives the pairs written, in order.
C7_RoundTrip ==
    w_pc = "closed" =>
        LET content == files[lastWriter]
        IN  /\ lastWriter \notin openFiles
            /\ Len(content) = Len(HEADER) + Len(written)
            /\ SubSeq(content, 1, Len(HEADER)) = HEADER
            /\ TwoIntegers(content)
            /\ ReadCoords(content) = written

\* a negative and a three-digit coordinate have been written and the file closed
C7_Witness ==
    /\ w_pc = "closed"
    /\ Len(written) = 2
    /\ written[1] = <<-3, 105>>
    /\ Len(files[lastWriter]) = Len(HEADER) + 2

\* the particles convertInputStep gets to write for micrograph m
Yielded(m) ==
    {i \in 1..Len(cv.particles) :
        MicNameOf(cv.particles[i].micId) = m /\ m \in cv.micDict}

\* C8: convertInputStep ends normally, and each micrograph's coordinate file
\* then has one data line per particle yielded for it (checked for runs in
\* which the shifts, when applied, exist).
C8_EveryParticleWritten ==
    (cv_pc \in {"done", "raised"} /\ ~(cv.applyShifts /\ cv.alignNone)) =>
        /\ cv_pc = "done"
        /\ \A m \in cv.micDict :
              Yielded(m) # {} =>
                  /\ files[m] # NoFile
                  /\ Len(files[m]) = Len(HEADER) + Cardinality(Yielded(m))
                  /\ TwoIntegers(files[m])

-----------------------------------------------------------------------------
(* Claims about the command builders *)

HasFlag(a, f) == \E j \in 1..Len(a) : a[j].flag = f

\* the values that follow flag f in the argument list a
ValuesOf(a, f) == {a[j].val : j \in {i \in 1..Len(a) : a[i].flag = f}}

\* a formatted float that reads as a number no greater than 50
AtMost50(v) == v.t = "f" /\ (v.i < 50 \/ (v.i = 50 /\ v.frac = 0))

\* C9: in every command line emitted, on the tilt-series path, through a
\* getCommand override, on the micrograph estimation path, on the
\* recalculation path and on the refinement path, the value of --resL is
\* at most 50.
C9_ResLAtMost50 ==
    \A n \in 1..Len(emitted) :
        /\ HasFlag(emitted[n].args, "--resL")
        /\ \A v \in ValuesOf(emitted[n].args, "--resL") : AtMost50(v)

VersionFlags == {"--smooth_resL", "--cosearch_refine_ps", "--refine_2d_T"}

\* C10: when the active version is not 1.18, no emitted argument string
\* holds --smooth_resL, --cosearch_refine_ps or --refine_2d_T, whatever the
\* toggles.
C10_NoLaterVersionFlags ==
    prot.version # "1.18" =>
        \A n \in 1..Len(emitted) :
            \A f \in VersionFlags : ~HasFlag(emitted[n].args, f)

\* version 1.06 with phase-shift estimation and co-search refinement
\* enabled has emitted a command line that holds the phase-shift flags
C10_Witness ==
    /\ prot.version = "1.06"
    /\ prot.doPhShEst
    /\ prot.coSearchRefine
    /\ Len(emitted) = 2
    /\ emitted[1].via \in {"_estimateCtf", "_estimateCtfList", "_restimateCTF"}
    /\ HasFlag(emitted[1].args, "--phase_shift_T")
    /\ HasFlag(emitted[2].args, "--phase_shift_T")

\* the flag whose value the template takes from dictionary key k
FlagOf(k) ==
    CASE k = "samplingRate" -> "--apix"
      [] k = "voltage" -> "--kV"
      [] k = "sphericalAberration" -> "--cs"
      [] k = "ampContrast" -> "--ac"
      [] k = "scannedPixelSize" -> "--dstep"
      [] k = "minDefocus" -> "--defL"
      [] k = "maxDefocus" -> "--defH"
      [] k = "step_focus" -> "--defS"
      [] k = "lowRes" -> "--resL"
      [] k = "highRes" -> "--resH"
      [] OTHER -> "--boxsize"

\* what a tilt-series protocol's ProgramGctf holds for a key once built
BaseOf(k) ==
    IF k = "lowRes" THEN (IF prot.lowRes > 50000 THEN 50000 ELSE prot.lowRes)
    ELSE 7000 * prot.ctfDownFactor

ByGetCommand == {n \in 1..Len(emitted) : emitted[n].via \in {"getCommand", "_estimateCtf"}}

\* C11: getCommand(**kwargs) formats the template with the stored
\* parameters merged with kwargs, kwargs winning; the stored parameters stay
\* as built, so a call without overrides gives the same arguments whatever
\* calls came before it.
C11_OverrideWinsBaseKept ==
    /\ \A n \in ByGetCommand :
          /\ \A k \in DOMAIN emitted[n].kwargs :
                ValuesOf(emitted[n].args, FlagOf(k)) = {FmtF(emitted[n].kwargs[k])}
          /\ \A k \in {"lowRes", "scannedPixelSize"} \ DOMAIN emitted[n].kwargs :
                ValuesOf(emitted[n].args, FlagOf(k)) = {FmtF(BaseOf(k))}
    /\ \A n, m \in ByGetCommand :
          (emitted[n].via = emitted[m].via /\ emitted[n].kwargs = emitted[m].kwargs)
              => emitted[n].args = emitted[m].args
    /\ (prot.kind = "ts" /\ cmd_pc = "ready") =>
          \A k \in {"lowRes", "scannedPixelSize"} : program.params[k] = BaseOf(k)

\* getCommand(lowRes=80) on a base of 30, then getCommand() gives 30 again
C11_Witness ==
    /\ prot.kind = "ts"
    /\ prot.lowRes = 30000
    /\ Len(emitted) = 2
    /\ emitted[1].via = "getCommand"
    /\ DOMAIN emitted[1].kwargs = {"lowRes"}
    /\ emitted[1].kwargs["lowRes"] = 80000
    /\ ValuesOf(emitted[1].args, "--resL") = {FmtF(80000)}
    /\ emitted[2].via = "getCommand"
    /\ DOMAIN emitted[2].kwargs = {}
    /\ ValuesOf(emitted[2].args, "--resL") = {FmtF(30000)}

\* GPU ids the caller of runJob fills the placeholder with
GpuIds == {0, 1}

\* C12: the builders never substitute the GPU id list.  Every argument
\* string handed over holds --gid followed by the placeholder %(GPU)s;
\* the dictionaries hold no GPU key and formatting the templates with them
\* raises no KeyError; the string can then be filled with any GPU id.
C12_GpuDeferred ==
    /\ \A n \in 1..Len(emitted) :
          /\ ValuesOf(emitted[n].args, "--gid") = {Key("%s", "GPU")}
          /\ KeyError(emitted[n].args, EmptyDict)
          /\ \A g \in GpuIds :
                /\ ~KeyError(emitted[n].args, "GPU" :> g)
                /\ ValuesOf(PyFormat(emitted[n].args, "GPU" :> g), "--gid") = {FmtS(g)}
    /\ (cmd_pc = "ready" /\ prot.kind = "ts") =>
          /\ "GPU" \notin DOMAIN program.params
          /\ ~KeyError(program.args, program.params)
    /\ (cmd_pc = "ready" /\ prot.kind \in {"mic", "refine"}) =>
          /\ "GPU" \notin DOMAIN params
          /\ ~KeyError(args, params)

\* two batches of one protocol got the same string, which fills with GPU 0
\* for one and GPU 1 for the other
C12_Witness ==
    /\ Len(emitted) = 2
    /\ emitted[1].via = "_estimateCtfList"
    /\ emitted[1].args = emitted[2].args
    /\ ValuesOf(PyFormat(emitted[1].args, "GPU" :> 0), "--gid") = {FmtS(0)}
    /\ ValuesOf(PyFormat(emitted[2].args, "GPU" :> 1), "--gid") = {FmtS(1)}

-----------------------------------------------------------------------------
(* Claims about the batch steps *)

\* the step of batch b has returned
Finished(b) == b < step

\* indexes of the calls of one kind made for batch b
CallsOf(op, b) == {k \in 1..Len(calls) : calls[k].op = op /\ calls[k].b = b}

\* C13: for a batch of N micrographs or the N tilt images of one tilt
\* series, the binary is run exactly once, after every image of the batch
\* has been converted.
C13_OncePerBatch ==
    bt.kind \in {"mic", "ts"} =>
        \A b \in 1..bt.nBatches :
            Finished(b) =>
                /\ Cardinality(CallsOf("runJob", b)) = 1
                /\ \A c \in CallsOf("convert", b) : \A r \in CallsOf("runJob", b) : c < r

\* the runs of the binary that raised
FailedRuns == {k \in 1..Len(calls) : calls[k].op = "runJob" /\ calls[k].what = "raise"}

\* call k2 belongs to the batch of the run k (to its tilt image, when the
\* run was for one tilt image)
SameBatch(k, k2) ==
    /\ calls[k2].b = calls[k].b
    /\ (calls[k].i = 0 \/ calls[k2].i = calls[k].i)

\* C14: once the binary has failed for a batch, no moveFile of that batch
\* is attempted and the binary is not run again for it; on the estimation,
\* recalculation, refinement and tilt-series paths.
C14_NoRelocationAfterFailure ==
    \A k \in FailedRuns :
        \A k2 \in (k + 1)..Len(calls) :
            SameBatch(k, k2) => calls[k2].op \notin {"moveFile", "runJob"}

\* the run of the binary that covered image im ended with this outcome
RunOf(im, outcome) ==
    \E k \in CallsOf("runJob", im[1]) :
        /\ calls[k].what = outcome
        /\ (calls[k].i = 0 \/ calls[k].i = im[2])

\* a failure of the binary never fails the run, and a finished run has
\* run the binary for every image and attached a CTF to the images of the
\* batches that went through
SiblingsGoOn ==
    /\ b_pc = "aborted" => calls[Len(calls)].op = "convert"
    /\ b_pc = "done" =>
          \A im \in Images(bt) :
              /\ \E o \in {"raise", "ok", "partial"} : RunOf(im, o)
              /\ RunOf(im, "ok") => outputs[im] = "estimated"

\* C15: a failure of the binary in one batch is logged, not raised; the
\* other batches are still run and relocated; the run reaches the output
\* creation, where the images of the failed batch get the sentinel record.
C15_FailedBatchGetsSentinel ==
    bt.kind \in {"mic", "ts", "refine"} =>
        /\ SiblingsGoOn
        /\ b_pc = "done" =>
              \A im \in Images(bt) : RunOf(im, "raise") => outputs[im] = "sentinel"

\* C15, as the code has it: the images of the failed batch get the
\* sentinel record in the micrograph and tilt-series protocols; in the
\* refinement protocol the particles of the failed micrograph are left out
\* of the output.
C15_Amended ==
    bt.kind \in {"mic", "ts", "refine"} =>
        /\ SiblingsGoOn
        /\ b_pc = "done" =>
              \A im \in Images(bt) :
                  RunOf(im, "raise") =>
                      outputs[im] = IF bt.kind = "refine" THEN "omitted" ELSE "sentinel"

\* two batches, the binary failed for the first and not for the second:
\* the run is done, the first has the sentinel and the second its CTF
C15_Witness ==
    /\ bt.kind = "mic"
    /\ bt.nBatches = 2
    /\ b_pc = "done"
    /\ RunOf(<<1, 1>>, "raise")
    /\ RunOf(<<2, 1>>, "ok")
    /\ outputs[<<1, 1>>] = "sentinel"
    /\ outputs[<<2, 1>>] = "estimated"

\* the output files of image im are at their per-image paths under extra
Relocated(im) ==
    \A suffix \in {"_ctf.mrc", "_ctf.log", "_ctf_EPA.log"} :
        [dir |-> ExtraDir, base |-> im, suffix |-> suffix] \in disk

\* what is left of batch b in its working directory
LeftIn(b, suffixes) ==
    {f \in disk : f.dir[1] = "work" /\ f.dir[2] = b /\ f.suffix \in suffixes}

\* C16: a batch of N micrographs whose run exits 0 with its 3N output
\* files written has all 3N moved to <base>_ctf.mrc, <base>_ctf.log and
\* <base>_ctf_EPA.log under extra, and none of them is left in the batch's
\* working directory.
C16_AllOutputsRelocated ==
    bt.kind = "mic" =>
        \A b \in 1..bt.nBatches :
            (Finished(b) /\ RunOf(<<b, 1>>, "ok")) =>
                /\ \A i \in 1..bt.nImages : Relocated(<<b, i>>)
                /\ LeftIn(b, {"ext", "_gctf.log", "_EPA.log"}) = {}
                /\ Cardinality(CallsOf("moveFile", b)) = 3 * bt.nImages

\* two micrographs in one batch, six files moved
C16_Witness ==
    /\ bt.kind = "mic"
    /\ bt.nImages = 2
    /\ Finished(1)
    /\ RunOf(<<1, 1>>, "ok")
    /\ Cardinality(CallsOf("moveFile", 1)) = 6
    /\ Relocated(<<1, 2>>)

\* C17: after a batch whose run of the binary succeeded, no converted
\* image (.mrc) of the batch is left in its working directory; in the
\* micrograph, refinement and tilt-series protocols.
C17_ConvertedImagesDeleted ==
    bt.kind \in {"mic", "refine", "ts"} =>
        \A b \in 1..bt.nBatches :
            (Finished(b) /\ \A i \in 1..bt.nImages : RunOf(<<b, i>>, "ok")) =>
                LeftIn(b, {".mrc"}) = {}

\* C18: an image that cannot be read or converted is the only one left
\* out: the step does not fail, the other images of the batch are
\* converted, the binary is run for them and their outputs are relocated.
C18_OnlyUnreadableExcluded ==
    bt.kind \in {"mic", "ts"} =>
        /\ b_pc # "aborted"
        /\ \A b \in 1..bt.nBatches :
              Finished(b) =>
                  \A i \in 1..bt.nImages :
                      <<b, i>> \notin bt.un =>
                          \E k \in CallsOf("convert", b) :
                              calls[k].i = i /\ calls[k].what = ".mrc"

-----------------------------------------------------------------------------
(* Claims about convertInputStep's writers and about validation *)

\* C19: every CoordinatesWriter that convertInputStep opens is closed when
\* the step ends, also when it ends by an error while a coordinate is
\* computed or written; at most one writer is open at any moment.
C19_WritersClosed ==
    /\ Cardinality(openFiles) <= 1
    /\ cv_pc \in {"done", "raised"} => openFiles = {}

\* C20: in the micrograph, refinement and tilt-series protocols _validate
\* returns the GPU error exactly when max(numberOfMpi, numberOfThreads) is
\* less than the number of GPU ids.
C20_GpuCheck ==
    v_pc = "done" =>
        (GpuError \in errors
            <=> (vd.numberOfMpi < vd.gpus /\ vd.numberOfThreads < vd.gpus))

-----------------------------------------------------------------------------
(* Claims about the coordinates convertInputStep passes on *)

AbsDiff(a, b) == IF a >= b THEN a - b ELSE b - a

\* |scale - 1| > 0.00001 for scale = particle sampling / micrograph sampling
ScaleDiffers == AbsDiff(cv.partSampling, cv.micSampling) * 100000 > cv.micSampling

Shifted(p) ==
    IF cv.applyShifts THEN <<p.x - p.sx, p.y - p.sy>> ELSE <<p.x, p.y>>

ExpectedCoord(p) ==
    IF ScaleDiffers
    THEN <<[num |-> Shifted(p)[1] * cv.partSampling, den |-> cv.micSampling],
           [num |-> Shifted(p)[2] * cv.partSampling, den |-> cv.micSampling]>>
    ELSE <<[num |-> Shifted(p)[1], den |-> 1], [num |-> Shifted(p)[2], den |-> 1]>>

\* C30: the coordinates convertInputStep hands to the writer are multiplied
\* by scale whenever scale > 1.00001 or scale < 0.99999, and are the unscaled
\* ones only when |scale - 1| <= 0.00001.
C30_ScaledBothWays ==
    cv.passed.of > 0 => cv.passed.argv = ExpectedCoord(cv.particles[cv.passed.of])

-----------------------------------------------------------------------------
(* Claims about the validation of the refinement protocol *)

\* C25: the refinement protocol's _validate returns 'Please provide input
\* CTFs for refinement.' exactly when useInputCtf is enabled and no input CTF
\* set is provided.
C25_InputCtfsRequired ==
    (v_pc = "done" /\ vd.kind = "refine") =>
        (CtfsError \in errors <=> (vd.useInputCtf /\ ~vd.hasCtfs))

-----------------------------------------------------------------------------
(* Claims about the tilt-series protocol's parameter dictionary *)

\* C24: getCtfParamsDict returns a copy, so that after ProgramGctf has been
\* constructed (clamping lowRes, setting minDefocus, maxDefocus and
\* step_focus on the dictionary it received) the protocol's own _params is
\* still the dictionary _initialize built.
C24_ProtocolParamsKept ==
    (prot.kind = "ts" /\ cmd_pc = "ready") => params = createCtfParams(prot)

-----------------------------------------------------------------------------
(* Claims about the optional flags *)

PhaseShiftFlags ==
    {"--phase_shift_L", "--phase_shift_H", "--phase_shift_S", "--phase_shift_T"}

HighResFlags == {"--Href_resL", "--Href_resH", "--Href_bfac"}

\* flag f occurs in a, each time followed by the integer n
IntFlag(a, f, n) ==
    /\ HasFlag(a, f)
    /\ \A v \in ValuesOf(a, f) : v.t = "d" /\ v.i = n /\ v.frac = 0

OneIf(b) == IF b THEN 1 ELSE 0

\* the flags of a, without the input path that follows them
FlagsOf(a) == SelectSeq(a, LAMBDA x : x.flag # "")

EndsWithValidation(a) ==
    LET fl == FlagsOf(a)
    IN  /\ Len(fl) >= 2
        /\ fl[Len(fl) - 1].flag = "--ctfstar"
        /\ fl[Len(fl) - 1].val.t = "NONE"
        /\ fl[Len(fl)].flag = "--do_validation"

\* C26: in every emitted argument string the phase-shift flags are present
\* exactly when doPhShEst is true (--phase_shift_T being 1 + the target
\* index), the --Href_ flags exactly when doHighRes is true, --do_EPA,
\* --do_Hres_ref and --do_validation are always present with 1 for a true
\* toggle and 0 otherwise, and the flags built by ProgramGctf._getArgs and
\* ProtGctf._argsGctf end with '--ctfstar NONE --do_validation <0|1> '.
C26_FlagsGatedByToggles ==
    \A n \in 1..Len(emitted) :
        LET a == emitted[n].args
        IN  /\ \A f \in PhaseShiftFlags : HasFlag(a, f) <=> prot.doPhShEst
            /\ prot.doPhShEst => IntFlag(a, "--phase_shift_T", 1 + prot.phaseShiftT)
            /\ \A f \in HighResFlags : HasFlag(a, f) <=> prot.doHighRes
            /\ IntFlag(a, "--do_EPA", OneIf(prot.doEPA))
            /\ IntFlag(a, "--do_Hres_ref", OneIf(prot.doHighRes))
            /\ IntFlag(a, "--do_validation", OneIf(prot.doValidate))
            /\ prot.kind \in {"mic", "ts"} => EndsWithValidation(a)

\* a micrograph run with every family enabled and the second phase-shift
\* target has emitted two command lines that hold the gated flags
C26_Witness ==
    /\ Len(emitted) = 2
    /\ prot.kind = "mic"
    /\ prot.doPhShEst /\ prot.phaseShiftT = 1
    /\ prot.doHighRes /\ prot.doEPA /\ prot.doValidate
    /\ HasFlag(emitted[2].args, "--phase_shift_T")
    /\ HasFlag(emitted[2].args, "--Href_bfac")

-----------------------------------------------------------------------------
(* Claims about the refinement protocol's argument template *)

InputCtfFlags ==
    {"--refine_input_ctf", "--defU_init", "--defV_init", "--defA_init", "--B_init",
     "--defU_err", "--defV_err", "--defA_err", "--B_err"}

Occurrences(a, f) == Cardinality({j \in 1..Len(a) : a[j].flag = f})

\* the dictionary key whose value follows flag f
InitKeyOf(f) ==
    CASE f = "--defU_init" -> "defU_init"
      [] f = "--defV_init" -> "defV_init"
      [] OTHER -> "defA_init"

\* C23: the refinement steps leave the argument template alone: in the
\* argument string passed to the binary for any micrograph each of
\* --refine_input_ctf, --defU_init, --defV_init, --defA_init, --B_init and
\* the _err flags occurs at most once, the initial values being those of
\* the input CTF matched to that micrograph, however many micrographs were
\* refined before.
C23_TemplateNotGrown ==
    \A n \in 1..Len(emitted) :
        emitted[n].via = "refineCtfStep" =>
            /\ \A f \in InputCtfFlags : Occurrences(emitted[n].args, f) <= 1
            /\ \A f \in {"--defU_init", "--defV_init", "--defA_init"} :
                  \A v \in ValuesOf(emitted[n].args, f) :
                      /\ InitKeyOf(f) \in DOMAIN emitted[n].kwargs
                      /\ v.t = "f"
                      /\ v.i * 1000 = emitted[n].kwargs[InitKeyOf(f)]

-----------------------------------------------------------------------------
(* Claims about the sampling rate of the output micrographs *)

\* C21: in the micrograph protocol the micrograph attached to every output
\* CTF has the input sampling rate multiplied by ctfDownFactor exactly
\* once, however many times a CTF model was created for the same
\* micrograph object.
C21_SamplingUpdatedOnce ==
    (bt.kind = "mic" /\ b_pc = "done") =>
        \A im \in Images(bt) : rates[im] = InputSampling * bt.ctfDownFactor

-----------------------------------------------------------------------------
(* Claims about the path of the local-refinement star file *)

\* C29: for every micrograph file name, base names with more than one dot
\* included, createOutputStep reads the local-refinement star file from the
\* path to which refineCtfStep moved it.
C29_ReadWhereMoved == n_pc = "read" => readFrom = movedTo

-----------------------------------------------------------------------------
(* Claims about the output of the refinement protocol *)

\* the star file refineCtfStep left for micrograph m, if any
StarOf(m) ==
    IF getCtfLocalOutPath(co.fileName[m]) \in co.stars
    THEN getCtfLocalOutPath(co.fileName[m]) ELSE NoName

\* the particles that are to be in the output: their micrograph is in the
\* input set and has a star file
Kept ==
    {i \in 1..Len(co.micIds) :
        /\ MicNameOf(co.micIds[i]) \in co.micDict
        /\ StarOf(MicNameOf(co.micIds[i])) # NoName}

\* how many particles of the micrograph of particle i come before it
RankOf(i) == Cardinality({j \in 1..(i - 1) : co.micIds[j] = co.micIds[i]})

\* C28: when createOutputStep is done, the output holds exactly the
\* particles whose micrograph is in the input set and has a star file, in
\* their input order, the k-th particle of a micrograph with the k-th row
\* of that micrograph's file.
C28_RowsFollowParticles ==
    co_pc = "done" =>
        /\ {partSet[n].particle : n \in 1..Len(partSet)} = Kept
        /\ \A n \in 1..(Len(partSet) - 1) : partSet[n].particle < partSet[n + 1].particle
        /\ \A n \in 1..Len(partSet) :
              /\ partSet[n].file = StarOf(MicNameOf(co.micIds[partSet[n].particle]))
              /\ partSet[n].row = RankOf(partSet[n].particle)

-----------------------------------------------------------------------------
(* Claims about the parallel steps of the tilt-series protocol *)

\* C22: when the tilt-series protocol has finished, whatever the
\* interleaving of its steps, the output set has been created exactly once,
\* it holds exactly one CTF series per input tilt series, with its tsId and
\* object id, and each CTF series holds one CTF per tilt image of the
\* series, the sentinel record for a tilt image whose run left no log.
C22_OneSeriesPerTiltSeries ==
    closing = "finished" =>
        /\ CTFs.created = 1
        /\ Len(CTFs.series) = tsr.nSeries
        /\ \A t \in TsIds :
              \E n \in 1..Len(CTFs.series) :
                  /\ CTFs.series[n].tsId = t
                  /\ CTFs.series[n].objId = t
                  /\ DOMAIN CTFs.series[n].ctfs = 1..tsr.nImages
                  /\ \A i \in 1..tsr.nImages :
                        <<t, i>> \notin tmpLogs => CTFs.series[n].ctfs[i] = "sentinel"

\* two tilt series of two tilt images, one run of the second series having
\* failed, and the protocol has finished
C22_Witness ==
    /\ closing = "finished"
    /\ tsr.nSeries = 2
    /\ tsr.nImages = 2
    /\ <<2, 1>> \in tmpLogs
    /\ <<2, 2>> \notin tmpLogs
    /\ CTFs.series[1].tsId = 2
    /\ CTFs.series[1].ctfs = <<"estimated", "sentinel">>

InBody(t) == outp[t].pc \in {"getattr", "create", "append"}

\* C27: createOutputStep(tsId) starts only after processTiltSeriesStep(tsId)
\* has finished, closeOutputSetsStep only after createOutputStep has finished
\* for every tilt series, and at most one createOutputStep body executes at
\* a time; processTiltSeriesStep of different tilt series wait for nothing.
C27_StepOrder ==
    /\ \A t \in TsIds : outp[t].pc # "waiting" => proc[t] = "finished"
    /\ closing = "finished" => \A t \in TsIds : outp[t].pc = "done"
    /\ Cardinality({t \in TsIds : InBody(t)}) <= 1
    /\ \A t \in TsIds : (proc[t] = "waiting" /\ ~Failed) => ENABLED processTiltSeriesStep_start

\* the body of createOutputStep of the second series executes while the
\* first series is still being processed
C27_Witness ==
    /\ tsr.nSeries = 2
    /\ proc[1] = "running"
    /\ proc[2] = "finished"
    /\ InBody(2)
    /\ lock = 2

====
